---- MODULE Spec2Model ----
(***************************************************************************)
(* A model of the game-components repository.                              *)
(*                                                                         *)
(* Part 1: the GameTetris element (packages/game-tetris/src/game-tetris.js *)
(* kept here as src/unnamed/part_002).  The element's fields are the       *)
(* record `game`; the browser's pending interval timers are `timers`; the  *)
(* record `last` remembers what the last handler did (which operation,     *)
(* how far the piece dropped, how many full rows the clearing pass found,  *)
(* whether it spawned and whether it started, stopped or levelled up).     *)
(*                                                                         *)
(* Part 2: the LivingWccell element (packages/living-wccell/src/           *)
(* living-wccell.js): one cell in `cell`, with `cellLast` the record of    *)
(* the last call and the events it dispatched; and a grid of cells         *)
(* advanced by the step() of the package's README in `grid`.               *)
(*                                                                         *)
(* Part 3: the ConvgameObject element (src/unnamed/part_005): two bodies   *)
(* in `bodies`, with `bodyLast` the record of the last call.               *)
(*                                                                         *)
(* Part 4: the BoardLayer element (packages/board-layer/src/               *)
(* board-layer.js): one board in `board`, with `boardLast` the record of   *)
(* the last call, the value it returned and the events it dispatched.      *)
(*                                                                         *)
(* The elements are independent classes; each specification runs one of    *)
(* them and leaves the variables of the others Absent.                     *)
(*                                                                         *)
(* Rows and columns are 0-based in the source and 1-based in the TLA+      *)
(* sequences: board row y, column x of the source is b[y + 1][x + 1].      *)
(* _render, _renderPreview and _dispatchEvent change no field of the       *)
(* element and are left out of the handlers.                               *)
(***************************************************************************)
EXTENDS Integers, Sequences, FiniteSets, TLC

VARIABLES game, timers, last, cell, cellLast, grid, bodies, bodyLast, board, boardLast

vars == <<game, timers, last, cell, cellLast, grid, bodies, bodyLast, board, boardLast>>

\* the value of a variable whose element is not part of the run
Absent == "absent"

\* no GameTetris element in the run
NoTetris == game = Absent /\ timers = Absent /\ last = Absent

\* no LivingWccell element in the run
NoCells == cell = Absent /\ cellLast = Absent /\ grid = Absent

\* no ConvgameObject element in the run
NoBodies == bodies = Absent /\ bodyLast = Absent

\* no BoardLayer element in the run
NoBoard == board = Absent /\ boardLast = Absent

(***************************************************************************)
(* Bounds of the model.                                                    *)
(***************************************************************************)
\* the boards of Spec: widths 2..MaxWidth, heights 2..MaxHeight, at most MaxCells cells
MaxWidth == 3
MaxHeight == 4
MaxCells == 10
\* the random generator yields the first NumKinds kinds of TETROMINO_KEYS
NumKinds == 3
\* no piece is locked once `lines` has reached MaxLines
MaxLines == 12
\* WellSpec: one board, and no piece is locked once `lines` has reached WellMaxLines
WellWidth == 4
WellHeight == 14
WellMaxLines == 5

(***************************************************************************)
(* Program constants.                                                      *)
(***************************************************************************)
TETROMINO_KEYS == <<"I", "O", "T", "S", "Z", "J", "L">>

TETROMINOES ==
  [I |-> [shape |-> << <<0, 0, 0, 0>>, <<1, 1, 1, 1>>, <<0, 0, 0, 0>>, <<0, 0, 0, 0>> >>,
          color |-> "#00f0f0"],
   O |-> [shape |-> << <<1, 1>>, <<1, 1>> >>,
          color |-> "#f0f000"],
   T |-> [shape |-> << <<0, 1, 0>>, <<1, 1, 1>>, <<0, 0, 0>> >>,
          color |-> "#a000f0"],
   S |-> [shape |-> << <<0, 1, 1>>, <<1, 1, 0>>, <<0, 0, 0>> >>,
          color |-> "#00f000"],
   Z |-> [shape |-> << <<1, 1, 0>>, <<0, 1, 1>>, <<0, 0, 0>> >>,
          color |-> "#f00000"],
   J |-> [shape |-> << <<1, 0, 0>>, <<1, 1, 1>>, <<0, 0, 0>> >>,
          color |-> "#0000f0"],
   L |-> [shape |-> << <<0, 0, 1>>, <<1, 1, 1>>, <<0, 0, 0>> >>,
          color |-> "#f0a000"]]

\* the default of the `speed` property
speed == 1000
\* the fastest tick interval
MinInterval == 100
\* the interval gained per level
SpeedStep == 80
\* lines per level
LinesPerLevel == 10
\* points per row of a hard drop and of a soft drop
HardDropPoints == 2
SoftDropPoints == 1
\* const lineScores = [0, 100, 300, 500, 800]
lineScores == <<0, 100, 300, 500, 800>>

\* JavaScript's null (an empty board cell)
null == "null"
\* no piece: the null of _currentPiece and _nextPiece
NoPiece == [type |-> "null", shape |-> <<>>, color |-> "null"]
\* the null of _gameLoop (timer ids are positive)
NoTimer == 0
\* the score once an undefined lineScores entry was added: the number NaN
NaN == -1

Kinds == 1..NumKinds

(***************************************************************************)
(* Arithmetic of JavaScript numbers, as far as the score needs it.         *)
(***************************************************************************)
\* a + b
JsAdd(a, b) == IF a = NaN \/ b = NaN THEN NaN ELSE a + b

\* a * b
JsMul(a, b) == IF a = NaN \/ b = NaN THEN NaN ELSE a * b

\* Math.floor(a / 2) for the centering of a spawned piece (a may be negative)
FloorHalf(a) == a \div 2

Max(a, b) == IF a >= b THEN a ELSE b

(***************************************************************************)
(* The board and the pieces.                                               *)
(***************************************************************************)
\* Array(this.width).fill(null)
EmptyRow(w) == [x \in 1..w |-> null]

\* _initBoard: height rows of width empty cells
InitBoard(w, h) == [y \in 1..h |-> EmptyRow(w)]

\* _getRandomPiece, for the key the random number selects: a copy of the template
GetRandomPiece(k) ==
  [type |-> TETROMINO_KEYS[k],
   shape |-> TETROMINOES[TETROMINO_KEYS[k]].shape,
   color |-> TETROMINOES[TETROMINO_KEYS[k]].color]

\* _getCurrentSpeed
GetCurrentSpeed(g) == Max(MinInterval, speed - (g.level - 1) * SpeedStep)

\* _isValidPosition that tests the empty cells of the shape matrix too
IsValidPositionOfMatrix(g, shape, x, y) ==
  \A row \in 1..Len(shape) : \A col \in 1..Len(shape[row]) :
    LET newX == x + (col - 1)
        newY == y + (row - 1)
    IN /\ ~(newX < 0 \/ newX >= g.width \/ newY >= g.height)
       /\ ~(newY >= 0 /\ g.board[newY + 1][newX + 1] # null)

\* _isValidPosition(shape, x, y) on the board of g
IsValidPosition(g, shape, x, y) ==
  \A row \in 1..Len(shape) : \A col \in 1..Len(shape[row]) :
    shape[row][col] # 0 =>
      LET newX == x + (col - 1)
          newY == y + (row - 1)
      IN /\ ~(newX < 0 \/ newX >= g.width \/ newY >= g.height)
         /\ ~(newY >= 0 /\ g.board[newY + 1][newX + 1] # null)

\* _rotateMatrix: rotated[col][rows - 1 - row] = matrix[row][col]
RotateMatrix(matrix) ==
  LET rows == Len(matrix)
      cols == Len(matrix[1])
  IN [col \in 1..cols |-> [j \in 1..rows |-> matrix[rows + 1 - j][col]]]

\* the y at which the loop `while (valid(x, y + 1)) y++` stops, started at y
RECURSIVE DropY(_, _, _, _)
DropY(g, shape, x, y) ==
  IF IsValidPosition(g, shape, x, y + 1) THEN DropY(g, shape, x, y + 1) ELSE y

\* _getGhostY that lets the ghost fall through the stack to the floor
GetGhostYToFloor(g) ==
  DropY([g EXCEPT !.board = InitBoard(g.width, g.height)],
        g.currentPiece.shape, g.currentX, g.currentY)

\* _getGhostY
GetGhostY(g) == DropY(g, g.currentPiece.shape, g.currentX, g.currentY)

\* the board after _lockPiece
LockedBoard(g) ==
  LET shape == g.currentPiece.shape
      Covered(y, x) ==
        LET row == y - g.currentY
            col == x - g.currentX
        IN /\ row >= 0 /\ row < Len(shape)
           /\ col >= 0 /\ col < Len(shape[row + 1])
           /\ shape[row + 1][col + 1] # 0
  IN [y \in 1..g.height |-> [x \in 1..g.width |->
        IF Covered(y - 1, x - 1) THEN g.currentPiece.color ELSE g.board[y][x]]]

\* this._board[y].every(cell => cell !== null)
IsFullRow(row) == \A x \in 1..Len(row) : row[x] # null

\* linesToClear: the indices (0-based) of the full rows, from the bottom up
RECURSIVE LinesToClear(_, _)
LinesToClear(b, y) ==
  IF y < 0 THEN <<>>
  ELSE (IF IsFullRow(b[y + 1]) THEN <<y>> ELSE <<>>) \o LinesToClear(b, y - 1)

\* this._board.splice(lineY, 1)
Splice(b, lineY) == SubSeq(b, 1, lineY) \o SubSeq(b, lineY + 2, Len(b))

\* this._board.unshift(row)
Unshift(b, row) == <<row>> \o b

\* RemoveLines with a second unshift in the loop
RECURSIVE RemoveLinesTwiceUnshift(_, _, _)
RemoveLinesTwiceUnshift(b, toClear, w) ==
  IF toClear = <<>> THEN b
  ELSE RemoveLinesTwiceUnshift(
         Unshift(Unshift(Splice(b, Head(toClear)), EmptyRow(w)), EmptyRow(w)),
         Tail(toClear), w)

\* for (const lineY of linesToClear) { splice(lineY, 1); unshift(empty row) }
RECURSIVE RemoveLines(_, _, _)
RemoveLines(b, toClear, w) ==
  IF toClear = <<>> THEN b
  ELSE RemoveLines(Unshift(Splice(b, Head(toClear)), EmptyRow(w)), Tail(toClear), w)

(***************************************************************************)
(* The private methods.  Each takes and returns a world w = [g, timers,    *)
(* tr]: the element's fields, the pending interval timers and the record   *)
(* of what the running handler did so far.                                 *)
(***************************************************************************)
\* the record of a handler that did nothing yet
NoTrace(op) ==
  [op |-> op, ran |-> FALSE, drop |-> 0, detected |-> -1, spawnFailed |-> FALSE,
   levelUp |-> FALSE]

\* the id setInterval returns: one no pending timer has
NewTimerId(ts) ==
  CHOOSE i \in 1..(Cardinality(ts) + 1) : \A t \in ts : t.id # i

\* _stopGameLoop
StopGameLoop(w) ==
  IF w.g.gameLoop # NoTimer
  THEN [w EXCEPT !.timers = {t \in @ : t.id # w.g.gameLoop},
                 !.g.gameLoop = NoTimer]
  ELSE w

\* _startGameLoop without its call of _stopGameLoop
StartGameLoopNoStop(w) ==
  LET id == NewTimerId(w.timers)
  IN [w EXCEPT !.timers = @ \cup {[id |-> id, ms |-> GetCurrentSpeed(w.g)]},
               !.g.gameLoop = id]

\* _startGameLoop
StartGameLoop(w) ==
  LET s == StopGameLoop(w)
      id == NewTimerId(s.timers)
  IN [s EXCEPT !.timers = @ \cup {[id |-> id, ms |-> GetCurrentSpeed(s.g)]},
               !.g.gameLoop = id]

\* _addScore
AddScore(w, points) == [w EXCEPT !.g.score = JsAdd(@, points)]

\* _endGame
EndGame(w) == StopGameLoop([w EXCEPT !.g.gameOver = TRUE])

\* _spawnPiece that generates the current piece too instead of promoting the
\* next piece
SpawnPieceSkipsNext(w, k) ==
  LET a == [w EXCEPT !.g.currentPiece = GetRandomPiece(k),
                     !.g.nextPiece = GetRandomPiece(k),
                     !.g.currentX =
                        FloorHalf(w.g.width - Len(GetRandomPiece(k).shape[1])),
                     !.g.currentY = 0]
  IN IF ~IsValidPosition(a.g, a.g.currentPiece.shape, a.g.currentX, a.g.currentY)
     THEN EndGame([a EXCEPT !.tr.spawnFailed = TRUE])
     ELSE a

\* _spawnPiece, the random number selecting key k for the new next piece
SpawnPiece(w, k) ==
  LET a == [w EXCEPT !.g.currentPiece = w.g.nextPiece,
                     !.g.nextPiece = GetRandomPiece(k),
                     !.g.currentX =
                        FloorHalf(w.g.width - Len(w.g.nextPiece.shape[1])),
                     !.g.currentY = 0]
  IN IF ~IsValidPosition(a.g, a.g.currentPiece.shape, a.g.currentX, a.g.currentY)
     THEN EndGame([a EXCEPT !.tr.spawnFailed = TRUE])
     ELSE a

\* _levelUp that leaves the threshold of the next level alone
LevelUpSameThreshold(w) ==
  StartGameLoop([w EXCEPT !.g.level = @ + 1, !.tr.levelUp = TRUE])

\* _levelUp without the restart of the game loop
LevelUpNoRestart(w) ==
  [w EXCEPT !.g.level = @ + 1,
            !.g.linesForNextLevel = @ + LinesPerLevel,
            !.tr.levelUp = TRUE]

\* _levelUp
LevelUp(w) ==
  StartGameLoop([w EXCEPT !.g.level = @ + 1,
                          !.g.linesForNextLevel = @ + LinesPerLevel,
                          !.tr.levelUp = TRUE])

\* lineScores[n]: undefined beyond the table, and undefined * level is NaN
LineScore(n) == IF n + 1 \in DOMAIN lineScores THEN lineScores[n + 1] ELSE NaN

\* _clearLines that awards the points after the level-up
ClearLinesScoreAfterLevelUp(w) ==
  LET linesToClear == LinesToClear(w.g.board, w.g.height - 1)
      n == Len(linesToClear)
      removed == [w EXCEPT !.g.board = RemoveLines(@, linesToClear, w.g.width),
                           !.tr.detected = n]
      counted == [removed EXCEPT !.g.lines = @ + n]
      levelled == IF counted.g.lines >= counted.g.linesForNextLevel
                  THEN LevelUp(counted) ELSE counted
  IN IF n = 0 THEN [w EXCEPT !.tr.detected = 0]
     ELSE AddScore(levelled, JsMul(LineScore(n), levelled.g.level))

\* _clearLines
ClearLines(w) ==
  LET linesToClear == LinesToClear(w.g.board, w.g.height - 1)
      n == Len(linesToClear)
      removed == [w EXCEPT !.g.board = RemoveLines(@, linesToClear, w.g.width),
                           !.tr.detected = n]
      scored == AddScore(removed, JsMul(LineScore(n), w.g.level))
      counted == [scored EXCEPT !.g.lines = @ + n]
  IN IF n = 0 THEN [w EXCEPT !.tr.detected = 0]
     ELSE IF counted.g.lines >= counted.g.linesForNextLevel THEN LevelUp(counted)
     ELSE counted

\* _lockPiece
LockPiece(w) == [w EXCEPT !.g.board = LockedBoard(w.g)]

\* the test of _moveDown
CanMoveDown(g) ==
  IsValidPosition(g, g.currentPiece.shape, g.currentX, g.currentY + 1)

\* _moveDown, when it returns true
MoveDown(w) == [w EXCEPT !.g.currentY = @ + 1, !.tr.drop = 1]

\* _moveLeft without the validity test
MoveLeftUnchecked(w) == [w EXCEPT !.g.currentX = @ - 1]

\* _moveLeft
MoveLeft(w) ==
  IF IsValidPosition(w.g, w.g.currentPiece.shape, w.g.currentX - 1, w.g.currentY)
  THEN [w EXCEPT !.g.currentX = @ - 1]
  ELSE w

\* _moveRight
MoveRight(w) ==
  IF IsValidPosition(w.g, w.g.currentPiece.shape, w.g.currentX + 1, w.g.currentY)
  THEN [w EXCEPT !.g.currentX = @ + 1]
  ELSE w

\* const kicks = [-1, 1, -2, 2]
kicks == <<-1, 1, -2, 2>>

\* _rotate with a floor kick: where no x offset fits, the rotated shape is
\* tried one row up
RotateFloorKick(w) ==
  LET rotated == RotateMatrix(w.g.currentPiece.shape)
      Fits(kick) == IsValidPosition(w.g, rotated, w.g.currentX + kick, w.g.currentY)
      fitting == {i \in DOMAIN kicks : Fits(kicks[i])}
      first == CHOOSE i \in fitting : \A j \in fitting : i <= j
  IN IF Fits(0) THEN [w EXCEPT !.g.currentPiece.shape = rotated]
     ELSE IF fitting # {}
     THEN [w EXCEPT !.g.currentPiece.shape = rotated,
                    !.g.currentX = @ + kicks[first]]
     ELSE IF IsValidPosition(w.g, rotated, w.g.currentX, w.g.currentY - 1)
     THEN [w EXCEPT !.g.currentPiece.shape = rotated, !.g.currentY = @ - 1]
     ELSE w

\* _rotate with the kicks tried in the order 1, -1, 2, -2
RotateRightKickFirst(w) ==
  LET rotated == RotateMatrix(w.g.currentPiece.shape)
      tried == <<1, -1, 2, -2>>
      Fits(kick) == IsValidPosition(w.g, rotated, w.g.currentX + kick, w.g.currentY)
      fitting == {i \in DOMAIN tried : Fits(tried[i])}
      first == CHOOSE i \in fitting : \A j \in fitting : i <= j
  IN IF Fits(0) THEN [w EXCEPT !.g.currentPiece.shape = rotated]
     ELSE IF fitting # {}
     THEN [w EXCEPT !.g.currentPiece.shape = rotated,
                    !.g.currentX = @ + tried[first]]
     ELSE w

\* _rotate
Rotate(w) ==
  LET rotated == RotateMatrix(w.g.currentPiece.shape)
      Fits(kick) == IsValidPosition(w.g, rotated, w.g.currentX + kick, w.g.currentY)
      fitting == {i \in DOMAIN kicks : Fits(kicks[i])}
      first == CHOOSE i \in fitting : \A j \in fitting : i <= j
  IN IF Fits(0) THEN [w EXCEPT !.g.currentPiece.shape = rotated]
     ELSE IF fitting # {}
     THEN [w EXCEPT !.g.currentPiece.shape = rotated,
                    !.g.currentX = @ + kicks[first]]
     ELSE w

\* _hardDrop that awards one point per row
HardDropOnePoint(w, k) ==
  LET y == DropY(w.g, w.g.currentPiece.shape, w.g.currentX, w.g.currentY)
      dropDistance == y - w.g.currentY
      dropped == [w EXCEPT !.g.currentY = y, !.tr.drop = dropDistance]
      scored == AddScore(dropped, dropDistance)
  IN SpawnPiece(ClearLines(LockPiece(scored)), k)

\* _hardDrop
HardDrop(w, k) ==
  LET y == DropY(w.g, w.g.currentPiece.shape, w.g.currentX, w.g.currentY)
      dropDistance == y - w.g.currentY
      dropped == [w EXCEPT !.g.currentY = y, !.tr.drop = dropDistance]
      scored == AddScore(dropped, dropDistance * HardDropPoints)
  IN SpawnPiece(ClearLines(LockPiece(scored)), k)

\* _tick
Tick(w, k) ==
  IF w.g.paused \/ w.g.gameOver THEN w
  ELSE IF CanMoveDown(w.g) THEN MoveDown([w EXCEPT !.tr.ran = TRUE])
  ELSE SpawnPiece(ClearLines(LockPiece([w EXCEPT !.tr.ran = TRUE])), k)

(***************************************************************************)
(* The public methods and the key handler.                                 *)
(***************************************************************************)
\* startGame without `this._linesForNextLevel = 10`
StartGameKeepsThreshold(w, k1, k2) ==
  LET fresh == [w EXCEPT !.g.board = InitBoard(w.g.width, w.g.height),
                         !.g.score = 0,
                         !.g.level = 1,
                         !.g.lines = 0,
                         !.g.gameOver = FALSE,
                         !.g.paused = FALSE,
                         !.g.gameStarted = TRUE,
                         !.g.nextPiece = GetRandomPiece(k1),
                         !.tr.op = "startGame",
                         !.tr.ran = TRUE]
  IN StartGameLoop(SpawnPiece(fresh, k2))

\* startGame, the random numbers selecting keys k1 and k2
StartGame(w, k1, k2) ==
  LET fresh == [w EXCEPT !.g.board = InitBoard(w.g.width, w.g.height),
                         !.g.score = 0,
                         !.g.level = 1,
                         !.g.lines = 0,
                         !.g.gameOver = FALSE,
                         !.g.paused = FALSE,
                         !.g.gameStarted = TRUE,
                         !.g.linesForNextLevel = LinesPerLevel,
                         !.g.nextPiece = GetRandomPiece(k1),
                         !.tr.op = "startGame",
                         !.tr.ran = TRUE]
  IN StartGameLoop(SpawnPiece(fresh, k2))

\* togglePause without its guard on gameStarted and gameOver
TogglePauseNoGuard(w) ==
  LET flipped == [w EXCEPT !.g.paused = ~@,
                           !.tr.op = "togglePause",
                           !.tr.ran = TRUE]
  IN IF flipped.g.paused THEN StopGameLoop(flipped) ELSE StartGameLoop(flipped)

\* togglePause
TogglePause(w) ==
  IF ~w.g.gameStarted \/ w.g.gameOver THEN [w EXCEPT !.tr.op = "togglePause"]
  ELSE LET flipped == [w EXCEPT !.g.paused = ~@,
                                !.tr.op = "togglePause",
                                !.tr.ran = TRUE]
       IN IF flipped.g.paused THEN StopGameLoop(flipped) ELSE StartGameLoop(flipped)

\* reset
Reset(w) ==
  LET stopped == StopGameLoop(w)
  IN [stopped EXCEPT !.g.board = InitBoard(w.g.width, w.g.height),
                     !.g.score = 0,
                     !.g.level = 1,
                     !.g.lines = 0,
                     !.g.gameOver = FALSE,
                     !.g.paused = FALSE,
                     !.g.gameStarted = FALSE,
                     !.g.currentPiece = NoPiece,
                     !.g.nextPiece = NoPiece,
                     !.tr.ran = TRUE]

\* the case labels of _handleKeyDown
StartKeys == {"Enter", " "}
PauseKeys == {"p", "P", "Escape"}
LeftKeys == {"ArrowLeft", "a", "A"}
RightKeys == {"ArrowRight", "d", "D"}
DownKeys == {"ArrowDown", "s", "S"}
RotateKeys == {"ArrowUp", "w", "W", "x", "X"}
DropKeys == {" "}

\* _handleKeyDown without `if (this.paused) return`
HandleKeyDownNoPausedGuard(w, key, k1, k2) ==
  IF ~w.g.gameStarted \/ w.g.gameOver
  THEN (IF key \in StartKeys THEN StartGame(w, k1, k2) ELSE w)
  ELSE IF key \in PauseKeys THEN TogglePause(w)
  ELSE IF key \in LeftKeys THEN MoveLeft([w EXCEPT !.tr.op = "moveLeft", !.tr.ran = TRUE])
  ELSE IF key \in RightKeys THEN MoveRight([w EXCEPT !.tr.op = "moveRight", !.tr.ran = TRUE])
  ELSE IF key \in DownKeys
  THEN LET v == [w EXCEPT !.tr.op = "softDrop", !.tr.ran = TRUE]
       IN IF CanMoveDown(v.g) THEN AddScore(MoveDown(v), SoftDropPoints) ELSE v
  ELSE IF key \in RotateKeys THEN Rotate([w EXCEPT !.tr.op = "rotate", !.tr.ran = TRUE])
  ELSE IF key \in DropKeys
  THEN HardDrop([w EXCEPT !.tr.op = "hardDrop", !.tr.ran = TRUE], k1)
  ELSE w

\* _handleKeyDown(e) for e.key = key
HandleKeyDown(w, key, k1, k2) ==
  IF ~w.g.gameStarted \/ w.g.gameOver
  THEN (IF key \in StartKeys THEN StartGame(w, k1, k2) ELSE w)
  ELSE IF key \in PauseKeys THEN TogglePause(w)
  ELSE IF w.g.paused THEN w
  ELSE IF key \in LeftKeys THEN MoveLeft([w EXCEPT !.tr.op = "moveLeft", !.tr.ran = TRUE])
  ELSE IF key \in RightKeys THEN MoveRight([w EXCEPT !.tr.op = "moveRight", !.tr.ran = TRUE])
  ELSE IF key \in DownKeys
  THEN LET v == [w EXCEPT !.tr.op = "softDrop", !.tr.ran = TRUE]
       IN IF CanMoveDown(v.g) THEN AddScore(MoveDown(v), SoftDropPoints) ELSE v
  ELSE IF key \in RotateKeys THEN Rotate([w EXCEPT !.tr.op = "rotate", !.tr.ran = TRUE])
  ELSE IF key \in DropKeys
  THEN HardDrop([w EXCEPT !.tr.op = "hardDrop", !.tr.ran = TRUE], k1)
  ELSE w

(***************************************************************************)
(* The state machine.                                                      *)
(***************************************************************************)
\* the fields the constructor sets, and the board firstUpdated initialises
NewGame(w, h) ==
  [width |-> w, height |-> h, score |-> 0, level |-> 1, lines |-> 0,
   paused |-> FALSE, gameOver |-> FALSE, gameStarted |-> FALSE,
   board |-> InitBoard(w, h), currentPiece |-> NoPiece, currentX |-> 0,
   currentY |-> 0, nextPiece |-> NoPiece, gameLoop |-> NoTimer,
   linesForNextLevel |-> LinesPerLevel]

\* the world a handler named op starts in
World(op) == [g |-> game, timers |-> timers, tr |-> NoTrace(op)]

\* the world a handler leaves
Becomes(w) ==
  /\ game' = w.g /\ timers' = w.timers /\ last' = w.tr
  /\ UNCHANGED <<cell, cellLast, grid, bodies, bodyLast, board, boardLast>>

\* the keys the model presses: one of each case of _handleKeyDown, and a key
\* it has no case for
Keys == {"Enter", " ", "p", "ArrowLeft", "ArrowRight", "ArrowDown", "ArrowUp", "q"}

Init ==
  /\ \E w \in 2..MaxWidth : \E h \in 2..MaxHeight :
       w * h <= MaxCells /\ game = NewGame(w, h)
  /\ timers = {}
  /\ last = NoTrace("init")
  /\ NoCells /\ NoBodies /\ NoBoard

\* a call of startGame()
CallStartGame(K) ==
  \E k1 \in K, k2 \in K : Becomes(StartGame(World("startGame"), k1, k2))

\* a call of togglePause()
CallTogglePause == Becomes(TogglePause(World("togglePause")))

\* a call of reset()
CallReset == Becomes(Reset(World("reset")))

\* one key: for a handler that draws no random number
AnyOne(K) == {CHOOSE k \in K : TRUE}

\* _tick draws a random number only when it locks the piece and spawns
TickDraws(g) == ~(g.paused \/ g.gameOver) /\ ~CanMoveDown(g)

\* _handleKeyDown draws random numbers only for startGame and _hardDrop
KeyStarts(g, key) == (~g.gameStarted \/ g.gameOver) /\ key \in StartKeys
KeyDrops(g, key) ==
  /\ ~(~g.gameStarted \/ g.gameOver)
  /\ key \notin PauseKeys
  /\ ~g.paused
  /\ key \notin (LeftKeys \cup RightKeys \cup DownKeys \cup RotateKeys)
  /\ key \in DropKeys

\* a pending interval timer fires
TimerFires(K, cap) ==
  /\ timers # {}
  /\ game.lines < cap
  /\ \E k \in (IF TickDraws(game) THEN K ELSE AnyOne(K)) :
       Becomes(Tick(World("tick"), k))

\* a keydown event reaches the document
KeyDown(K, cap, keys) ==
  /\ game.lines < cap
  /\ \E key \in keys :
       \E k1 \in (IF KeyStarts(game, key) \/ KeyDrops(game, key) THEN K ELSE AnyOne(K)) :
         \E k2 \in (IF KeyStarts(game, key) THEN K ELSE AnyOne(K)) :
           Becomes(HandleKeyDown(World("key"), key, k1, k2))

Next ==
  \/ CallStartGame(Kinds)
  \/ CallTogglePause
  \/ CallReset
  \/ TimerFires(Kinds, MaxLines)
  \/ KeyDown(Kinds, MaxLines, Keys)

Spec == Init /\ [][Next]_vars

(***************************************************************************)
(* WellSpec: the same element on a WellWidth x WellHeight board, in the    *)
(* runs where the random generator yields I pieces only and the player     *)
(* presses only space (start, hard drop), ArrowUp (rotate) and ArrowLeft.  *)
(* Every behaviour of WellSpec is a behaviour of the element; it builds    *)
(* the deep stacks in which a piece completes four rows at once.           *)
(***************************************************************************)
WellKinds == {k \in 1..Len(TETROMINO_KEYS) : TETROMINO_KEYS[k] = "I"}

WellKeys == {" ", "ArrowUp", "ArrowLeft"}

InitWell ==
  /\ game = NewGame(WellWidth, WellHeight)
  /\ timers = {}
  /\ last = NoTrace("init")
  /\ NoCells /\ NoBodies /\ NoBoard

NextWell == KeyDown(WellKinds, WellMaxLines, WellKeys)

WellSpec == InitWell /\ [][NextWell]_vars

(***************************************************************************)
(* What the claims speak of.                                               *)
(***************************************************************************)
\* the handler of this step locked a piece and ran the clearing pass
Locked(tr) == tr.detected >= 0

\* the number of rows a hard drop from the current state moves the piece:
\* the greatest n with every position 1..n rows below the current one valid
FreeFall(g) ==
  CHOOSE n \in 0..g.height :
    /\ \A i \in 1..n :
         IsValidPosition(g, g.currentPiece.shape, g.currentX, g.currentY + i)
    /\ ~IsValidPosition(g, g.currentPiece.shape, g.currentX, g.currentY + n + 1)

\* the board as _lockPiece leaves it in a step that locks: a hard drop locks
\* the piece FreeFall rows down, a tick where it is
PreClearBoard(op) ==
  IF op = "hardDrop"
  THEN LockedBoard([game EXCEPT !.currentY = @ + FreeFall(game)])
  ELSE LockedBoard(game)

\* b with its full rows deleted, the rest kept in order, and as many empty
\* rows put on top
Compacted(b, w) ==
  LET NotFull(row) == ~IsFullRow(row)
      kept == SelectSeq(b, NotFull)
  IN [i \in 1..(Len(b) - Len(kept)) |-> EmptyRow(w)] \o kept

\* the points of k lines cleared at once, as documented
DocumentedLinePoints(k) ==
  CASE k = 1 -> 100 [] k = 2 -> 300 [] k = 3 -> 500 [] k = 4 -> 800

\* the flags (gameStarted, paused, gameOver) and their four combinations
Flags(g) == <<g.gameStarted, g.paused, g.gameOver>>

Idle == <<FALSE, FALSE, FALSE>>

Playing == <<TRUE, FALSE, FALSE>>

Paused == <<TRUE, TRUE, FALSE>>

GameOver == <<TRUE, FALSE, TRUE>>

\* the flags of a step: always one of the four combinations; togglePause in
\* idle or gameOver changes nothing and else flips playing and paused; reset
\* leads to idle; a failed spawn of a tick or a hard drop leads from playing
\* to gameOver; nothing else but a start changes the flags
OtherTransitions ==
  /\ Flags(game') \in {Idle, Playing, Paused, GameOver}
  /\ (last'.op = "togglePause" /\ Flags(game) \in {Idle, GameOver}) =>
        (game' = game /\ timers' = timers)
  /\ (last'.op = "togglePause" /\ Flags(game) = Playing) => Flags(game') = Paused
  /\ (last'.op = "togglePause" /\ Flags(game) = Paused) => Flags(game') = Playing
  /\ last'.op = "reset" => Flags(game') = Idle
  /\ (last'.op \in {"tick", "hardDrop"} /\ last'.spawnFailed) =>
        (Flags(game) = Playing /\ Flags(game') = GameOver)
  /\ (last'.op \notin {"startGame", "togglePause", "reset"} /\ ~last'.spawnFailed) =>
        Flags(game') = Flags(game)

(***************************************************************************)
(* C1  Line clearing: after a lock, the board is the board the lock left   *)
(* with exactly its full rows deleted, the other rows kept in order and as *)
(* many empty rows inserted at the top; no full row remains.               *)
(***************************************************************************)
C1_ClearDeletesExactlyFullRows ==
  [][Locked(last') =>
       /\ game'.board = Compacted(PreClearBoard(last'.op), game.width)
       /\ \A y \in 1..game.height : ~IsFullRow(game'.board[y])]_vars

(***************************************************************************)
(* C2  A clearing pass detects at most 4 full rows, and the score is       *)
(* always a non-negative integer.                                          *)
(***************************************************************************)
C2_AtMostFourRowsNaturalScore ==
  /\ last.detected <= 4
  /\ game.score # NaN
  /\ game.score \in Nat

C4_DropPoints ==
  [][/\ (last'.op = "hardDrop" /\ last'.detected = 0) =>
          game'.score = game.score + 2 * FreeFall(game)
     /\ (last'.op = "hardDrop" /\ last'.detected \in 1..4) =>
          game'.score =
            game.score + 2 * FreeFall(game)
              + DocumentedLinePoints(last'.detected) * game.level
     /\ (last'.op = "softDrop" /\ FreeFall(game) > 0) =>
          /\ game'.score = game.score + 1
          /\ game'.currentY = game.currentY + 1
     /\ (last'.op = "softDrop" /\ FreeFall(game) = 0) => game' = game
     /\ (last'.op = "tick" /\ last'.ran /\ FreeFall(game) > 0) =>
          /\ game'.score = game.score
          /\ game'.currentY = game.currentY + 1]_vars

\* a hard drop that moved the piece down and cleared nothing
C4_Witness == last.op = "hardDrop" /\ last.drop >= 1 /\ last.detected = 0

C6_BoardDimensions ==
  /\ Len(game.board) = game.height
  /\ \A y \in 1..Len(game.board) : Len(game.board[y]) = game.width

\* a clearing pass that found several rows has run
C6_Witness == last.detected >= 2 /\ Len(game.board) = game.height

(***************************************************************************)
(* C7  At most one tick timer is pending, and it is the one the element    *)
(* holds in _gameLoop: no orphaned timer.                                  *)
(***************************************************************************)
C7_AtMostOneTimer ==
  /\ Cardinality(timers) <= 1
  /\ \A t \in timers : t.id = game.gameLoop

\* the loop was restarted by a level-up
C7_Witness == last.levelUp /\ Cardinality(timers) = 1 /\ ~game.gameOver

(***************************************************************************)
(* C8  A handler whose spawn finds the spawn position invalid ends with    *)
(* gameOver = true and no tick timer pending, whichever handler it was     *)
(* (tick, hard drop, startGame); and a tick of a finished game changes     *)
(* nothing.                                                                *)
(***************************************************************************)
C8_SpawnFailureHaltsTicking ==
  [][/\ last'.spawnFailed => (game'.gameOver /\ timers' = {})
     /\ (game.gameOver /\ last'.op = "tick") => game' = game]_vars

(***************************************************************************)
(* C9  While paused no tick timer is pending, and no handler other than    *)
(* togglePause, startGame and reset changes the board, the piece, its      *)
(* position, the score, the level or the lines.                            *)
(***************************************************************************)
C9_PausedIsFrozen ==
  [][/\ game'.paused => timers' = {}
     /\ (game.paused /\ last'.op \notin {"togglePause", "startGame", "reset"}) =>
          /\ game'.board = game.board
          /\ game'.currentPiece = game.currentPiece
          /\ game'.currentX = game.currentX
          /\ game'.currentY = game.currentY
          /\ game'.score = game.score
          /\ game'.level = game.level
          /\ game'.lines = game.lines]_vars

\* a key other than pause reached the handler of a paused game
C9_Witness == game.paused /\ last.op = "key" /\ game.gameStarted

(***************************************************************************)
(* C10  The flags (started, paused, over) are always one of idle (F,F,F),  *)
(* playing (T,F,F), paused (T,T,F), gameOver (T,F,T); they change only by  *)
(* a start (to playing), a togglePause (playing <-> paused), a failed      *)
(* spawn (playing to gameOver) and a reset (to idle); togglePause in idle  *)
(* or gameOver changes nothing.                                            *)
(* (The statement as written: every start leads to playing.)               *)
(***************************************************************************)
C10_FlagsOriginal ==
  [][/\ OtherTransitions
     /\ last'.op = "startGame" => Flags(game') = Playing]_vars

(***************************************************************************)
(* C10, amended: as above, but a start leads to playing, or to gameOver    *)
(* when the spawn of that start finds the spawn position invalid.          *)
(***************************************************************************)
C10_FlagsAmended ==
  [][/\ OtherTransitions
     /\ (last'.op = "startGame" /\ ~last'.spawnFailed) => Flags(game') = Playing
     /\ (last'.op = "startGame" /\ last'.spawnFailed) => Flags(game') = GameOver]_vars

\* a start that ended in gameOver
C10_Witness == last.op = "startGame" /\ last.spawnFailed /\ Flags(game) = GameOver

\* the fields a start leaves, whether or not its spawn succeeded
AfterStart ==
  /\ game'.board = InitBoard(game.width, game.height)
  /\ game'.score = 0 /\ game'.level = 1 /\ game'.lines = 0
  /\ game'.linesForNextLevel = 10
  /\ ~game'.paused /\ game'.gameStarted
  /\ game'.currentPiece # NoPiece /\ game'.nextPiece # NoPiece
  /\ game'.currentPiece.type \in {"I", "O", "T", "S", "Z", "J", "L"}
  /\ game'.currentY = 0
  /\ 2 * game'.currentX <= game.width - Len(game'.currentPiece.shape[1])
  /\ 2 * game'.currentX + 2 > game.width - Len(game'.currentPiece.shape[1])

(***************************************************************************)
(* C11  startGame, called in any state, leaves an empty board with the     *)
(* freshly spawned piece at the centered spawn position, score 0, level 1, *)
(* lines 0, threshold 10, gameOver and paused false, started true, a       *)
(* current and a next piece, and exactly one timer pending at the level-1  *)
(* interval.                                                               *)
(* (The statement as written: gameOver = false after every start.)         *)
(***************************************************************************)
C11_StartOriginal ==
  [][last'.op = "startGame" =>
       /\ AfterStart
       /\ ~game'.gameOver
       /\ \E t \in timers' : timers' = {t} /\ t.ms = 1000]_vars

(***************************************************************************)
(* C11, amended: as above when the spawn position of the first piece is    *)
(* valid; when it is not, the start ends with the same fields but          *)
(* gameOver = true.                                                        *)
(***************************************************************************)
C11_StartAmended ==
  [][last'.op = "startGame" =>
       /\ AfterStart
       /\ ~last'.spawnFailed =>
            /\ ~game'.gameOver
            /\ \E t \in timers' : timers' = {t} /\ t.ms = 1000
       /\ last'.spawnFailed => game'.gameOver]_vars

\* a start whose spawn succeeded: everything reset, one timer pending
C11_Witness ==
  /\ last.op = "startGame" /\ ~last.spawnFailed
  /\ game.lines = 0 /\ game.score = 0 /\ game.linesForNextLevel = 10
  /\ Cardinality(timers) = 1

(***************************************************************************)
(* C12  reset, called in any state, leaves the state of a freshly          *)
(* constructed element: empty board, no current and no next piece, score   *)
(* 0, level 1, lines 0, threshold 10, paused, gameOver and gameStarted     *)
(* false, no timer pending.                                                *)
(***************************************************************************)
C12_ResetRestoresFresh ==
  [][last'.op = "reset" =>
       /\ game'.board = InitBoard(game.width, game.height)
       /\ game'.currentPiece = NoPiece /\ game'.nextPiece = NoPiece
       /\ game'.score = 0 /\ game'.level = 1 /\ game'.lines = 0
       /\ game'.linesForNextLevel = 10
       /\ ~game'.paused /\ ~game'.gameOver /\ ~game'.gameStarted
       /\ timers' = {}]_vars

(***************************************************************************)
(* C13  A pending timer's interval is max(100, speed - (level - 1) * 80)   *)
(* at the current level: 1000, 920, 680 ms at levels 1, 2, 5, never below  *)
(* 100 ms and non-increasing in the level.                                 *)
(***************************************************************************)
C13_TimerIntervalFollowsLevel ==
  LET interval(l) == GetCurrentSpeed([level |-> l])
      expected(l) == IF 1000 - (l - 1) * 80 >= 100 THEN 1000 - (l - 1) * 80 ELSE 100
  IN /\ \A t \in timers : t.ms = expected(game.level)
     /\ interval(1) = 1000 /\ interval(2) = 920 /\ interval(5) = 680
     /\ \A l \in 1..20 : interval(l) >= 100 /\ interval(l + 1) <= interval(l)
                         /\ interval(l) = expected(l)

\* the loop was re-scheduled at level 2
C13_Witness ==
  /\ game.level = 2 /\ ~game.paused /\ ~game.gameOver
  /\ \E t \in timers : t.ms = 920

\* the shapes the validity test is asked about: the templates of the kinds
\* and their rotations
PieceShapes ==
  UNION {{GetRandomPiece(k).shape,
          RotateMatrix(GetRandomPiece(k).shape),
          RotateMatrix(RotateMatrix(GetRandomPiece(k).shape)),
          RotateMatrix(RotateMatrix(RotateMatrix(GetRandomPiece(k).shape)))} :
         k \in Kinds}

\* the occupied cells (row, col) of a shape, 0-based
OccupiedCells(shape) ==
  {c \in (0..(Len(shape) - 1)) \X (0..(Len(shape[1]) - 1)) : shape[c[1] + 1][c[2] + 1] # 0}

\* the places the model asks about: every x and y at which a cell of the
\* shape can lie on the board, and one beyond on each side
PlacesOf(g, shape) == ((-Len(shape[1]))..g.width) \X ((-Len(shape))..g.height)

\* the cell (row, col) of the shape at (x, y) lies on an occupied cell
OnOccupied(g, x, y, c) ==
  /\ x + c[2] \in 0..(g.width - 1) /\ y + c[1] \in 0..(g.height - 1)
  /\ g.board[y + c[1] + 1][x + c[2] + 1] # null

(***************************************************************************)
(* C30  The validity test for a shape at (x, y) returns true iff every     *)
(* occupied cell (row, col) of the shape satisfies 0 <= x+col < width and  *)
(* y+row < height and, when y+row >= 0, the board cell at (y+row, x+col)   *)
(* is empty; occupied cells at negative rows are exempt from the           *)
(* occupancy test, and empty cells of the shape never affect the result.   *)
(***************************************************************************)
C30_ValidityTest ==
  \A shape \in PieceShapes : \A p \in PlacesOf(game, shape) :
    IsValidPosition(game, shape, p[1], p[2]) <=>
      \A c \in OccupiedCells(shape) :
        /\ 0 <= p[1] + c[2] /\ p[1] + c[2] < game.width
        /\ p[2] + c[1] < game.height
        /\ p[2] + c[1] >= 0 => ~OnOccupied(game, p[1], p[2], c)

\* on a board with locked cells a shape is valid with an occupied cell above
\* the board and an empty cell of its matrix on a locked cell, and the
\* current piece cannot move down because of a locked cell
C30_Witness ==
  /\ game.currentPiece # NoPiece
  /\ ~IsValidPosition(game, game.currentPiece.shape, game.currentX, game.currentY + 1)
  /\ \E c \in OccupiedCells(game.currentPiece.shape) :
       OnOccupied(game, game.currentX, game.currentY + 1, c)
  /\ \E shape \in PieceShapes : \E p \in PlacesOf(game, shape) :
       /\ IsValidPosition(game, shape, p[1], p[2])
       /\ \E c \in OccupiedCells(shape) : p[2] + c[1] < 0
       /\ \E c \in ((0..(Len(shape) - 1)) \X (0..(Len(shape[1]) - 1)))
                   \ OccupiedCells(shape) : OnOccupied(game, p[1], p[2], c)

(***************************************************************************)
(* Part 2: LivingWccell.                                                   *)
(***************************************************************************)
\* a cell is not let live beyond the age MaxAge
MaxAge == 3
\* updateGeneration is called with 0..MaxGeneration
MaxGeneration == 2

\* const CONWAY_RULES
CONWAY_RULES == [birth |-> {3}, survival |-> {2, 3}]

\* the presets CellularRules.CONWAY, HIGHLIFE and SEEDS
CellularRules ==
  [CONWAY |-> [birth |-> {3}, survival |-> {2, 3}],
   HIGHLIFE |-> [birth |-> {3, 6}, survival |-> {2, 3}],
   SEEDS |-> [birth |-> {2}, survival |-> {}]]

\* the counts a cell of a grid can have: eight neighbours
NeighborCounts == 0..8

\* _nextState = null, and _nextState = b
NoNextState == <<>>

NextState(b) == <<b>>

\* the fields the constructor of a cell sets
NewCell ==
  [alive |-> FALSE, age |-> 0, generation |-> 0, neighborCount |-> 0,
   rules |-> CONWAY_RULES, nextState |-> NoNextState]

\* a cell with the events its running method has dispatched: cw = [c, ev]
CellWorld(c) == [c |-> c, ev |-> <<>>]

\* _dispatchStateChange
DispatchStateChange(cw) ==
  [cw EXCEPT !.ev = Append(@, [name |-> "state-change",
                               alive |-> cw.c.alive,
                               previousAlive |-> ~cw.c.alive,
                               age |-> cw.c.age,
                               generation |-> cw.c.generation])]

\* setAlive that dispatches whether or not the value changed
CellSetAliveAlwaysDispatches(cw, alive) ==
  LET previousState == cw.c.alive
      aged == IF alive /\ ~previousState THEN 1
              ELSE IF ~alive THEN 0 ELSE cw.c.age
  IN DispatchStateChange([cw EXCEPT !.c.alive = alive, !.c.age = aged])

\* setAlive without `else if (!alive) this.age = 0`
CellSetAliveKeepsAge(cw, alive) ==
  LET previousState == cw.c.alive
      aged == IF alive /\ ~previousState THEN 1 ELSE cw.c.age
      set == [cw EXCEPT !.c.alive = alive, !.c.age = aged]
  IN IF previousState # alive THEN DispatchStateChange(set) ELSE set

\* setAlive(alive)
CellSetAlive(cw, alive) ==
  LET previousState == cw.c.alive
      aged == IF alive /\ ~previousState THEN 1
              ELSE IF ~alive THEN 0 ELSE cw.c.age
      set == [cw EXCEPT !.c.alive = alive, !.c.age = aged]
  IN IF previousState # alive THEN DispatchStateChange(set) ELSE set

\* toggle
CellToggle(cw) == CellSetAlive(cw, ~cw.c.alive)

\* calculateNextState that checks the birth rules for a live cell too
CalculateNextStateBirthOnly(cw, aliveNeighbors) ==
  [cw EXCEPT !.c.neighborCount = aliveNeighbors,
             !.c.nextState = NextState(aliveNeighbors \in cw.c.rules.birth)]

\* calculateNextState that commits the state it calculated at once
CalculateNextStateCommits(cw, aliveNeighbors) ==
  LET b == IF cw.c.alive THEN aliveNeighbors \in cw.c.rules.survival
           ELSE aliveNeighbors \in cw.c.rules.birth
  IN [cw EXCEPT !.c.neighborCount = aliveNeighbors,
                !.c.nextState = NextState(b),
                !.c.alive = b]

\* calculateNextState(aliveNeighbors)
CalculateNextState(cw, aliveNeighbors) ==
  [cw EXCEPT !.c.neighborCount = aliveNeighbors,
             !.c.nextState =
                IF cw.c.alive
                THEN NextState(aliveNeighbors \in cw.c.rules.survival)
                ELSE NextState(aliveNeighbors \in cw.c.rules.birth)]

\* the body of applyNextState below its guard, for the pending value b
ApplyPending(cw, b) ==
  LET previousState == cw.c.alive
      aged == IF b THEN (IF previousState THEN cw.c.age + 1 ELSE 1) ELSE 0
      applied == [cw EXCEPT !.c.alive = b, !.c.age = aged,
                            !.c.nextState = NoNextState]
  IN IF previousState # b THEN DispatchStateChange(applied) ELSE applied

\* applyNextState without `if (this._nextState === null) return`: null is
\* assigned to alive, which is falsy and differs from either previous value
ApplyNextStateNoGuard(cw) ==
  IF cw.c.nextState = NoNextState
  THEN DispatchStateChange([cw EXCEPT !.c.alive = FALSE, !.c.age = 0])
  ELSE ApplyPending(cw, cw.c.nextState[1])

\* applyNextState that leaves _nextState pending
ApplyNextStateKeepsPending(cw) ==
  IF cw.c.nextState = NoNextState THEN cw
  ELSE [ApplyPending(cw, cw.c.nextState[1]) EXCEPT !.c.nextState = cw.c.nextState]

\* applyNextState
ApplyNextState(cw) ==
  IF cw.c.nextState = NoNextState THEN cw
  ELSE ApplyPending(cw, cw.c.nextState[1])

\* updateGeneration(gen)
UpdateGeneration(cw, gen) ==
  LET previousGen == cw.c.generation
      set == [cw EXCEPT !.c.generation = gen]
  IN IF previousGen # gen
     THEN [set EXCEPT !.ev = Append(@, [name |-> "generation-update",
                                        generation |-> gen,
                                        previousGeneration |-> previousGen,
                                        alive |-> cw.c.alive,
                                        age |-> cw.c.age])]
     ELSE set

\* reset of a cell
CellReset(cw) ==
  [cw EXCEPT !.c.alive = FALSE, !.c.age = 0, !.c.generation = 0,
             !.c.neighborCount = 0, !.c.nextState = NoNextState]

\* setRules that calculates a pending next state anew under the new rules
SetRulesRecalculates(cw, birth, survival) ==
  LET set == [cw EXCEPT !.c.rules = [birth |-> birth, survival |-> survival]]
  IN IF cw.c.nextState = NoNextState THEN set
     ELSE [set EXCEPT !.c.nextState =
             IF cw.c.alive
             THEN NextState(cw.c.neighborCount \in survival)
             ELSE NextState(cw.c.neighborCount \in birth)]

\* setRules(birth, survival)
SetRules(cw, birth, survival) ==
  [cw EXCEPT !.c.rules = [birth |-> birth, survival |-> survival]]

\* _handleClick: toggle, then a cell-click event
CellHandleClick(cw) ==
  LET toggled == CellToggle(cw)
  IN [toggled EXCEPT !.ev = Append(@, [name |-> "cell-click",
                                       alive |-> toggled.c.alive])]

(***************************************************************************)
(* CellSpec: one cell and every order of calls of its methods.             *)
(***************************************************************************)
\* the record of a call: its name, its argument, the name of the call before
\* it and the events it dispatched
CellCall(op, arg, cw) ==
  /\ cell' = cw.c
  /\ cellLast' = [op |-> op, arg |-> arg, before |-> cellLast.op, emitted |-> cw.ev]
  /\ UNCHANGED <<game, timers, last, grid, bodies, bodyLast, board, boardLast>>

\* the rule sets the model hands to setRules
RuleSets == {CellularRules.CONWAY, CellularRules.HIGHLIFE, CellularRules.SEEDS}

InitCell ==
  /\ cell = NewCell
  /\ cellLast = [op |-> "init", arg |-> 0, before |-> "init", emitted |-> <<>>]
  /\ grid = Absent
  /\ NoTetris /\ NoBodies /\ NoBoard

CallSetAlive == \E b \in BOOLEAN : CellCall("setAlive", b, CellSetAlive(CellWorld(cell), b))

CallToggle == CellCall("toggle", 0, CellToggle(CellWorld(cell)))

CallCalculateNextState ==
  \E n \in NeighborCounts :
    CellCall("calculateNextState", n, CalculateNextState(CellWorld(cell), n))

CallApplyNextState ==
  /\ cell.age < MaxAge
  /\ CellCall("applyNextState", 0, ApplyNextState(CellWorld(cell)))

CallUpdateGeneration ==
  \E gen \in 0..MaxGeneration :
    CellCall("updateGeneration", gen, UpdateGeneration(CellWorld(cell), gen))

CallCellReset == CellCall("reset", 0, CellReset(CellWorld(cell)))

CallSetRules ==
  \E r \in RuleSets : CellCall("setRules", 0, SetRules(CellWorld(cell), r.birth, r.survival))

CellClicked == CellCall("click", 0, CellHandleClick(CellWorld(cell)))

NextCell ==
  \/ CallSetAlive
  \/ CallToggle
  \/ CallCalculateNextState
  \/ CallApplyNextState
  \/ CallUpdateGeneration
  \/ CallCellReset
  \/ CallSetRules
  \/ CellClicked

CellSpec == InitCell /\ [][NextCell]_vars

\* the state-change events among the events of a call
StateChanges(emitted) ==
  LET IsStateChange(e) == e.name = "state-change"
  IN SelectSeq(emitted, IsStateChange)

(***************************************************************************)
(* C14  Under the Conway rules, calculateNextState(n) followed by          *)
(* applyNextState leaves a dead cell alive iff n = 3 and a live cell alive *)
(* iff n is 2 or 3, for every n in 0..8.                                   *)
(***************************************************************************)
C14_ConwayRule ==
  [][(/\ cellLast.op = "calculateNextState"
      /\ cellLast'.op = "applyNextState"
      /\ cell.rules = [birth |-> {3}, survival |-> {2, 3}]) =>
       LET n == cellLast.arg
       IN /\ n \in 0..8
          /\ cell'.alive = IF cell.alive THEN n \in {2, 3} ELSE n = 3]_vars

\* a live cell survived with 2 neighbours
C14_Witness ==
  /\ cellLast.op = "applyNextState" /\ cellLast.before = "calculateNextState"
  /\ cell.rules = CONWAY_RULES /\ cell.alive /\ cell.age = 2 /\ cell.neighborCount = 2

(***************************************************************************)
(* GridSpec: a grid of cells advanced by step() of the README: a           *)
(* generation is either the two phases of step(), the cells of each phase  *)
(* visited in any order, or (mode "interleaved") calculateNextState and    *)
(* applyNextState called cell after cell.                                  *)
(***************************************************************************)
\* the grids of GridSpec: GRID_WIDTH in 1..MaxGridWidth, GRID_HEIGHT in
\* 1..MaxGridHeight, at most MaxGridCells cells
MaxGridWidth == 3
MaxGridHeight == 3
MaxGridCells == 6

\* the coordinates of the cells of a grid
Positions(w, h) == (0..(w - 1)) \X (0..(h - 1))

\* cells[ny][nx].alive ? 1 : 0
Bit(b) == IF b THEN 1 ELSE 0

\* the sum of f over the pairs of D
RECURSIVE SumOver(_, _)
SumOver(D, f) ==
  IF D = {} THEN 0
  ELSE LET d == CHOOSE e \in D : TRUE IN f[d] + SumOver(D \ {d}, f)

\* getNeighborCount(x, y) of the README, on the cells of g
GetNeighborCount(g, x, y) ==
  LET deltas == ({-1, 0, 1} \X {-1, 0, 1}) \ {<<0, 0>>}
      seen == [d \in deltas |->
                 Bit(g.cells[<<(x + d[1] + g.w) % g.w, (y + d[2] + g.h) % g.h>>].alive)]
  IN SumOver(deltas, seen)

\* a new grid whose cells at `pattern` were made alive by setAlive(true)
NewGrid(w, h, pattern) ==
  LET made == [p \in Positions(w, h) |->
                 IF p \in pattern THEN CellSetAlive(CellWorld(NewCell), TRUE).c
                 ELSE NewCell]
  IN [w |-> w, h |-> h, cells |-> made,
      start |-> [p \in Positions(w, h) |-> made[p].alive],
      mode |-> "none", calculated |-> {}, applied |-> {}]

\* every cell of g was applied: the generation is complete
Complete(g) == g.applied = DOMAIN g.cells

InitGrid ==
  /\ \E w \in 1..MaxGridWidth : \E h \in 1..MaxGridHeight :
       /\ w * h <= MaxGridCells
       /\ \E pattern \in SUBSET Positions(w, h) : grid = NewGrid(w, h, pattern)
  /\ cell = Absent /\ cellLast = Absent
  /\ NoTetris /\ NoBodies /\ NoBoard

GridUnchanged == UNCHANGED <<game, timers, last, cell, cellLast, bodies, bodyLast, board, boardLast>>

\* a call of step() begins, or a generation of calls cell after cell
BeginStep ==
  /\ grid.mode # "none" => Complete(grid)
  /\ \A p \in DOMAIN grid.cells : grid.cells[p].age < MaxAge
  /\ \E mode \in {"twoPhase", "interleaved"} :
       grid' = [grid EXCEPT !.mode = mode,
                            !.start = [p \in DOMAIN grid.cells |-> grid.cells[p].alive],
                            !.calculated = {},
                            !.applied = {}]
  /\ GridUnchanged

\* the first loop of step(): cells[y][x].calculateNextState(getNeighborCount(x, y))
StepCalculates ==
  /\ grid.mode = "twoPhase"
  /\ \E p \in DOMAIN grid.cells \ grid.calculated :
       grid' = [grid EXCEPT
                  !.cells[p] = CalculateNextState(
                                 CellWorld(@), GetNeighborCount(grid, p[1], p[2])).c,
                  !.calculated = @ \cup {p}]
  /\ GridUnchanged

\* the second loop of step(): cells[y][x].applyNextState()
StepApplies ==
  /\ grid.mode = "twoPhase"
  /\ grid.calculated = DOMAIN grid.cells
  /\ \E p \in DOMAIN grid.cells \ grid.applied :
       grid' = [grid EXCEPT !.cells[p] = ApplyNextState(CellWorld(@)).c,
                            !.applied = @ \cup {p}]
  /\ GridUnchanged

\* calculateNextState and applyNextState of one cell, before the next cell
CalculatesAndApplies ==
  /\ grid.mode = "interleaved"
  /\ \E p \in DOMAIN grid.cells \ grid.applied :
       grid' = [grid EXCEPT
                  !.cells[p] = ApplyNextState(
                                 CalculateNextState(
                                   CellWorld(@), GetNeighborCount(grid, p[1], p[2]))).c,
                  !.calculated = @ \cup {p},
                  !.applied = @ \cup {p}]
  /\ GridUnchanged

NextGrid ==
  \/ BeginStep
  \/ StepCalculates
  \/ StepApplies
  \/ CalculatesAndApplies

GridSpec == InitGrid /\ [][NextGrid]_vars

\* the number of the eight neighbours of (x, y), wrapping around the edges of
\* the w x h grid, that are alive in the configuration a
AliveAround(a, w, h, x, y) ==
  Cardinality({d \in (-1..1) \X (-1..1) :
                 /\ d # <<0, 0>>
                 /\ a[<<(x + d[1] + w) % w, (y + d[2] + h) % h>>]})

\* the synchronous next generation of the configuration a under the rules r
SynchronousNext(a, w, h, r) ==
  [p \in Positions(w, h) |->
     IF a[p] THEN AliveAround(a, w, h, p[1], p[2]) \in r.survival
     ELSE AliveAround(a, w, h, p[1], p[2]) \in r.birth]

\* the configuration of the grid
Alive(g) == [p \in DOMAIN g.cells |-> g.cells[p].alive]

(***************************************************************************)
(* C15  Advancing a grid by calling calculateNextState on every cell and   *)
(* only then applyNextState on every cell yields the synchronous next      *)
(* generation, for every visiting order within each phase; no calculate    *)
(* observes a cell's post-generation state.                                *)
(***************************************************************************)
C15_TwoPhaseStepIsSynchronous ==
  grid.mode = "twoPhase" =>
    /\ grid.applied = {} => Alive(grid) = grid.start
    /\ \A p \in grid.calculated :
         grid.cells[p].neighborCount = AliveAround(grid.start, grid.w, grid.h, p[1], p[2])
    /\ Complete(grid) =>
         Alive(grid) = SynchronousNext(grid.start, grid.w, grid.h,
                                       [birth |-> {3}, survival |-> {2, 3}])

\* a completed step() that changed the configuration and kept a cell alive
C15_Witness ==
  /\ grid.mode = "twoPhase" /\ Complete(grid)
  /\ Alive(grid) # grid.start
  /\ \E p \in DOMAIN grid.cells : grid.cells[p].age >= 2
  /\ \E p \in DOMAIN grid.cells : grid.start[p] /\ ~grid.cells[p].alive

\* the other half of C15: calls interleaved cell after cell can end in a
\* configuration that is not the synchronous next generation
C15_InterleavedDiverges ==
  /\ grid.mode = "interleaved" /\ Complete(grid)
  /\ Alive(grid) # SynchronousNext(grid.start, grid.w, grid.h,
                                   [birth |-> {3}, survival |-> {2, 3}])

(***************************************************************************)
(* C16  applyNextState with no pending state changes nothing and emits     *)
(* nothing; so a second applyNextState after one calculateNextState has no *)
(* effect.                                                                 *)
(***************************************************************************)
C16_ApplyWithoutPendingIsNoOp ==
  [][(cellLast'.op = "applyNextState" /\ cell.nextState = <<>>) =>
       /\ cell' = cell
       /\ cellLast'.emitted = <<>>]_vars

\* a second applyNextState on a live cell
C16_Witness ==
  /\ cellLast.op = "applyNextState" /\ cellLast.before = "applyNextState"
  /\ cell.alive

(***************************************************************************)
(* C17  age = 0 whenever alive = false.                                    *)
(***************************************************************************)
C17_DeadCellHasAgeZero == ~cell.alive => cell.age = 0

\* a cell that aged and then died
C17_Witness ==
  /\ ~cell.alive /\ cellLast.op \in {"setAlive", "applyNextState"}
  /\ \E i \in DOMAIN cellLast.emitted : cellLast.emitted[i].previousAlive

(***************************************************************************)
(* C18  The pending next state is null initially, after every              *)
(* applyNextState and after reset, non-null after calculateNextState, and  *)
(* no other call (setAlive, toggle, setRules, updateGeneration) sets or    *)
(* clears it.                                                              *)
(***************************************************************************)
C18_PendingOnlyBetweenCalculateAndApply ==
  /\ (cellLast.op = "init" => cell.nextState = <<>>)
  /\ [][/\ cellLast'.op \in {"applyNextState", "reset"} => cell'.nextState = <<>>
        /\ cellLast'.op = "calculateNextState" =>
             cell'.nextState \in {<<TRUE>>, <<FALSE>>}
        /\ cellLast'.op \in {"setAlive", "toggle", "setRules", "updateGeneration",
                             "click"} =>
             cell'.nextState = cell.nextState]_vars

\* a pending state survived a setAlive
C18_Witness == cellLast.op = "setAlive" /\ cell.nextState # <<>>

(***************************************************************************)
(* C19  setAlive, toggle and applyNextState emit a state-change exactly    *)
(* once when the call changed alive, with the new value of alive and       *)
(* previousAlive its negation, and emit none when alive is unchanged.      *)
(***************************************************************************)
C19_StateChangeIffChanged ==
  [][cellLast'.op \in {"setAlive", "toggle", "applyNextState"} =>
       LET changes == StateChanges(cellLast'.emitted)
       IN IF cell'.alive # cell.alive
          THEN /\ Len(changes) = 1
               /\ changes[1].alive = cell'.alive
               /\ changes[1].previousAlive = cell.alive
               /\ changes[1].previousAlive = ~changes[1].alive
          ELSE changes = <<>>]_vars

\* a survival: applyNextState left a live cell alive and emitted nothing
C19_Witness ==
  /\ cellLast.op = "applyNextState" /\ cellLast.before = "calculateNextState"
  /\ cell.alive /\ cell.age >= 2 /\ cellLast.emitted = <<>>

(***************************************************************************)
(* Part 3: ConvgameObject.                                                 *)
(*                                                                         *)
(* A JavaScript number is modelled as an exact rational <<n, d>> in lowest *)
(* terms with d > 0; the rounding of a double is not modelled.             *)
(* Math.sqrt is modelled where its argument is the square of a rational,   *)
(* and BodySpec places the bodies so that the distance of their centres is *)
(* one.                                                                    *)
(***************************************************************************)
\* BodySpec makes at most MaxCalls calls
MaxCalls == 3

Abs(n) == IF n < 0 THEN -n ELSE n

RECURSIVE GCD(_, _)
GCD(a, b) == IF b = 0 THEN a ELSE GCD(b, a % b)

\* the number n / d
Rat(n, d) ==
  LET g == GCD(Abs(n), Abs(d))
      sign == IF d < 0 THEN -1 ELSE 1
  IN <<sign * (n \div g), sign * (d \div g)>>

\* the number n
Num(n) == <<n, 1>>

\* a + b, a - b, a * b, a / b, -a, a < b, a > b, Math.min(a, b)
RAdd(a, b) ==
  LET g == GCD(a[2], b[2])
  IN Rat(a[1] * (b[2] \div g) + b[1] * (a[2] \div g), (a[2] \div g) * b[2])

RSub(a, b) == RAdd(a, <<-b[1], b[2]>>)

RMul(a, b) ==
  LET g == GCD(Abs(a[1]), b[2])
      h == GCD(Abs(b[1]), a[2])
  IN Rat((a[1] \div g) * (b[1] \div h), (a[2] \div h) * (b[2] \div g))

RDiv(a, b) == RMul(a, IF b[1] < 0 THEN <<-b[2], -b[1]>> ELSE <<b[2], b[1]>>)

RNeg(a) == <<-a[1], a[2]>>

RLess(a, b) == a[1] * b[2] < b[1] * a[2]

RGreater(a, b) == RLess(b, a)

RLessEq(a, b) == ~RLess(b, a)

RMin(a, b) == IF RLess(b, a) THEN b ELSE a

\* n is the square of a natural number, and that number
RECURSIVE SqrtBetween(_, _, _)
SqrtBetween(n, lo, hi) ==
  IF lo >= hi THEN lo
  ELSE LET mid == (lo + hi + 1) \div 2
       IN IF mid * mid <= n THEN SqrtBetween(n, mid, hi) ELSE SqrtBetween(n, lo, mid - 1)

ISqrt(n) == SqrtBetween(n, 0, IF n < 46340 THEN n ELSE 46340)

IsSquare(n) == ISqrt(n) * ISqrt(n) = n

\* Math.sqrt(a), for a the square of a rational
HasRationalSqrt(a) == a[1] >= 0 /\ IsSquare(a[1]) /\ IsSquare(a[2])

RSqrt(a) == <<ISqrt(a[1]), ISqrt(a[2])>>

\* bounds = null
NoBounds == [none |-> TRUE]

\* the fields the constructor of a body sets, with the attributes given
NewBody(x, y, width, height, mass, friction, restitution, isStatic, bounds) ==
  [x |-> x, y |-> y, width |-> width, height |-> height,
   velocityX |-> Num(0), velocityY |-> Num(0),
   mass |-> mass, friction |-> friction, restitution |-> restitution,
   isStatic |-> isStatic, bounds |-> bounds,
   accelerationX |-> Num(0), accelerationY |-> Num(0)]

\* getBoundingBox
GetBoundingBox(o) == [x |-> o.x, y |-> o.y, width |-> o.width, height |-> o.height]

\* getCenter
GetCenter(o) ==
  [x |-> RAdd(o.x, RDiv(o.width, Num(2))), y |-> RAdd(o.y, RDiv(o.height, Num(2)))]

\* the bodies with the events the running method has dispatched:
\* bw = [b, ev], b[i] the body i
BodyWorld(b) == [b |-> b, ev |-> <<>>]

\* _dispatchEvent(name, detail) by body i
BodyDispatch(bw, i, name, detail) ==
  [bw EXCEPT !.ev = Append(@, [name |-> name, by |-> i, detail |-> detail])]

\* the body of _checkBounds of body i; a bound the object `bounds` lacks has
\* its default (minX = 0, maxX = Infinity, minY = 0, maxY = Infinity);
\* subtractSize says whether the right and the bottom clamp subtract the
\* width and the height
ClampToBounds(bw, i, subtractSize) ==
  LET o == bw.b[i]
      width == IF subtractSize THEN o.width ELSE Num(0)
      height == IF subtractSize THEN o.height ELSE Num(0)
      bounds == o.bounds
      Given(f) == f \in DOMAIN bounds
      minX == IF Given("minX") THEN bounds.minX ELSE Num(0)
      minY == IF Given("minY") THEN bounds.minY ELSE Num(0)
      left == RLess(o.x, minX)
      right == ~left /\ Given("maxX") /\ RGreater(RAdd(o.x, o.width), bounds.maxX)
      top == RLess(o.y, minY)
      bottom == ~top /\ Given("maxY") /\ RGreater(RAdd(o.y, o.height), bounds.maxY)
      bouncedX == RMul(RNeg(o.velocityX), o.restitution)
      bouncedY == RMul(RNeg(o.velocityY), o.restitution)
      afterX == IF left THEN [o EXCEPT !.x = minX, !.velocityX = bouncedX]
                ELSE IF right
                THEN [o EXCEPT !.x = RSub(bounds.maxX, width), !.velocityX = bouncedX]
                ELSE o
      afterY == IF top THEN [afterX EXCEPT !.y = minY, !.velocityY = bouncedY]
                ELSE IF bottom
                THEN [afterX EXCEPT !.y = RSub(bounds.maxY, height),
                                    !.velocityY = bouncedY]
                ELSE afterX
      hitBoundary == IF top THEN "top" ELSE IF bottom THEN "bottom"
                     ELSE IF left THEN "left" ELSE IF right THEN "right" ELSE "null"
      checked == [bw EXCEPT !.b[i] = afterY]
  IN IF bounds = NoBounds THEN bw
     ELSE IF hitBoundary # "null"
     THEN BodyDispatch(checked, i, "boundary-hit",
                       [boundary |-> hitBoundary, x |-> afterY.x, y |-> afterY.y])
     ELSE checked

\* _checkBounds that clamps the origin of the box to maxX and maxY
CheckBoundsClampsOrigin(bw, i) == ClampToBounds(bw, i, FALSE)

\* _checkBounds of body i
CheckBounds(bw, i) == ClampToBounds(bw, i, TRUE)

\* the body after update has moved it and before update checks the bounds
Moved(o, deltaTime) ==
  LET velocityX == RMul(RAdd(o.velocityX, RMul(o.accelerationX, deltaTime)), o.friction)
      velocityY == RMul(RAdd(o.velocityY, RMul(o.accelerationY, deltaTime)), o.friction)
  IN [o EXCEPT !.velocityX = velocityX,
               !.velocityY = velocityY,
               !.x = RAdd(o.x, RMul(velocityX, deltaTime)),
               !.y = RAdd(o.y, RMul(velocityY, deltaTime)),
               !.accelerationX = Num(0),
               !.accelerationY = Num(0)]

\* update that leaves the accumulated acceleration in place
UpdateMovingKeepsAcceleration(bw, i, deltaTime) ==
  LET o == bw.b[i]
      velocityX == RMul(RAdd(o.velocityX, RMul(o.accelerationX, deltaTime)), o.friction)
      velocityY == RMul(RAdd(o.velocityY, RMul(o.accelerationY, deltaTime)), o.friction)
  IN [bw EXCEPT !.b[i].velocityX = velocityX,
                !.b[i].velocityY = velocityY,
                !.b[i].x = RAdd(o.x, RMul(velocityX, deltaTime)),
                !.b[i].y = RAdd(o.y, RMul(velocityY, deltaTime))]

\* the body of update below its guard
UpdateMoving(bw, i, deltaTime) ==
  LET o == bw.b[i]
      moved == Moved(o, deltaTime)
      checked == IF moved.bounds # NoBounds
                 THEN CheckBounds([bw EXCEPT !.b[i] = moved], i)
                 ELSE [bw EXCEPT !.b[i] = moved]
      now == checked.b[i]
  IN IF now.x # o.x \/ now.y # o.y
     THEN BodyDispatch(checked, i, "position-change",
                       [x |-> now.x, y |-> now.y, previousX |-> o.x, previousY |-> o.y,
                        velocityX |-> now.velocityX, velocityY |-> now.velocityY])
     ELSE checked

\* update(deltaTime) of body i
BodyUpdate(bw, i, deltaTime) ==
  IF bw.b[i].isStatic THEN bw ELSE UpdateMoving(bw, i, deltaTime)

\* other = null, where other = j names the body j
NoBody == 0

\* the overlap test without its last conjunct, thisBox.y + thisBox.height >
\* otherBox.y
CollidesWithoutLastTest(a, b) ==
  /\ RLess(a.x, RAdd(b.x, b.width))
  /\ RGreater(RAdd(a.x, a.width), b.x)
  /\ RLess(a.y, RAdd(b.y, b.height))

\* the overlap test that takes boxes that touch as overlapping
CollidesInclusive(a, b) ==
  /\ RLessEq(a.x, RAdd(b.x, b.width))
  /\ RLessEq(b.x, RAdd(a.x, a.width))
  /\ RLessEq(a.y, RAdd(b.y, b.height))
  /\ RLessEq(b.y, RAdd(a.y, a.height))

\* collidesWith(other) of body i, other = body j: the test `collides` of
\* two boxes, the world after the call
Collides(a, b) ==
  /\ RLess(a.x, RAdd(b.x, b.width))
  /\ RGreater(RAdd(a.x, a.width), b.x)
  /\ RLess(a.y, RAdd(b.y, b.height))
  /\ RGreater(RAdd(a.y, a.height), b.y)

CollidesWith(bw, i, j) ==
  LET thisBox == GetBoundingBox(bw.b[i])
      otherBox == GetBoundingBox(bw.b[j])
  IN IF j = NoBody THEN bw
     ELSE IF Collides(thisBox, otherBox)
     THEN BodyDispatch(bw, i, "collision",
                       [other |-> j, thisBox |-> thisBox, otherBox |-> otherBox])
     ELSE bw

\* the value collidesWith(other) of body i returns
CollidesWithReturns(bw, i, j) ==
  IF j = NoBody THEN FALSE
  ELSE Collides(GetBoundingBox(bw.b[i]), GetBoundingBox(bw.b[j]))

\* applyForce(forceX, forceY) of body i
ApplyForce(bw, i, forceX, forceY) ==
  IF bw.b[i].isStatic THEN bw
  ELSE [bw EXCEPT !.b[i].accelerationX = RAdd(@, RDiv(forceX, bw.b[i].mass)),
                  !.b[i].accelerationY = RAdd(@, RDiv(forceY, bw.b[i].mass))]

\* applyImpulse(impulseX, impulseY) of body i
ApplyImpulse(bw, i, impulseX, impulseY) ==
  IF bw.b[i].isStatic THEN bw
  ELSE [bw EXCEPT !.b[i].velocityX = RAdd(@, RDiv(impulseX, bw.b[i].mass)),
                  !.b[i].velocityY = RAdd(@, RDiv(impulseY, bw.b[i].mass))]

\* setPosition(x, y) of body i
SetPosition(bw, i, x, y) == [bw EXCEPT !.b[i].x = x, !.b[i].y = y]

\* setVelocity(vx, vy) of body i
SetVelocity(bw, i, vx, vy) == [bw EXCEPT !.b[i].velocityX = vx, !.b[i].velocityY = vy]

\* stop() of body i
Stop(bw, i) ==
  [bw EXCEPT !.b[i].velocityX = Num(0), !.b[i].velocityY = Num(0),
             !.b[i].accelerationX = Num(0), !.b[i].accelerationY = Num(0)]

\* the square of the distance of the centres of bodies a and b
DistanceSquared(a, b) ==
  LET dx == RSub(GetCenter(b).x, GetCenter(a).x)
      dy == RSub(GetCenter(b).y, GetCenter(a).y)
  IN RAdd(RMul(dx, dx), RMul(dy, dy))

\* distanceTo(other)
DistanceTo(a, b) == RSqrt(DistanceSquared(a, b))

\* resolveCollision below its first guard; applyThis and applyOther say
\* whether the impulse is applied to this and to other
Resolve(bw, i, j, applyThis, applyOther) ==
  LET this == bw.b[i]
      other == bw.b[j]
      dx == RSub(GetCenter(other).x, GetCenter(this).x)
      dy == RSub(GetCenter(other).y, GetCenter(this).y)
      distance == RSqrt(RAdd(RMul(dx, dx), RMul(dy, dy)))
      nx == RDiv(dx, distance)
      ny == RDiv(dy, distance)
      dvx == RSub(this.velocityX, other.velocityX)
      dvy == RSub(this.velocityY, other.velocityY)
      dvn == RAdd(RMul(dvx, nx), RMul(dvy, ny))
      restitution == RMin(this.restitution, other.restitution)
      totalMass == IF this.isStatic THEN other.mass
                   ELSE IF other.isStatic THEN this.mass
                   ELSE RAdd(this.mass, other.mass)
      impulse == RDiv(RMul(RNeg(RAdd(Num(1), restitution)), dvn), totalMass)
      first == IF applyThis
               THEN [bw EXCEPT
                       !.b[i].velocityX = RSub(@, RMul(RMul(impulse, other.mass), nx)),
                       !.b[i].velocityY = RSub(@, RMul(RMul(impulse, other.mass), ny))]
               ELSE bw
      second == IF applyOther
                THEN [first EXCEPT
                        !.b[j].velocityX = RAdd(@, RMul(RMul(impulse, this.mass), nx)),
                        !.b[j].velocityY = RAdd(@, RMul(RMul(impulse, this.mass), ny))]
                ELSE first
  IN IF distance = Num(0) THEN bw
     ELSE IF RGreater(dvn, Num(0)) THEN bw
     ELSE second

\* resolveCollision that applies the impulse to static bodies too
ResolveCollisionMovesStatic(bw, i, j) ==
  IF bw.b[i].isStatic /\ bw.b[j].isStatic THEN bw
  ELSE Resolve(bw, i, j, TRUE, TRUE)

\* resolveCollision(other) of body i, other = body j
ResolveCollision(bw, i, j) ==
  IF bw.b[i].isStatic /\ bw.b[j].isStatic THEN bw
  ELSE Resolve(bw, i, j, ~bw.b[i].isStatic, ~bw.b[j].isStatic)

(***************************************************************************)
(* BodySpec: two bodies and every order of at most MaxCalls calls.         *)
(***************************************************************************)
\* the two bodies
Bodies == {1, 2}

\* the arguments the model passes: forces and impulses, velocities,
\* positions, time deltas
Pushes == {<<Num(2), Num(0)>>, <<Num(-1), Num(2)>>}

Velocities == {<<Num(-1), Num(0)>>, <<Num(-1), Num(-1)>>}

Places == {<<Num(3), Num(4)>>}

Deltas == {Num(1), Rat(1, 2)}

\* the attributes of the second body: its place, its mass
SecondPlaces == {<<Num(3), Num(0)>>, <<Num(3), Num(4)>>, <<Num(0), Num(0)>>}

Masses == {Num(1), Num(2)}

\* the bounds of the first body
SomeBounds ==
  {NoBounds,
   [minX |-> Num(0), maxX |-> Num(4), minY |-> Num(0)],
   [minX |-> Num(0), maxX |-> Num(4), minY |-> Num(0), maxY |-> Num(5)]}

\* the velocities of the two bodies
VelocitiesOf(b) == [i \in Bodies |-> <<b[i].velocityX, b[i].velocityY>>]

\* the record of a call
BodyCall(op, i, bw) ==
  /\ bodyLast.calls < MaxCalls
  /\ bodies' = bw.b
  /\ bodyLast' = [op |-> op, this |-> i, calls |-> bodyLast.calls + 1,
                  changed |-> VelocitiesOf(bw.b) # VelocitiesOf(bodies),
                  emitted |-> bw.ev]
  /\ UNCHANGED <<game, timers, last, cell, cellLast, grid, board, boardLast>>

InitBodies ==
  /\ \E s1 \in BOOLEAN, s2 \in BOOLEAN, place \in SecondPlaces, m \in Masses,
        bounds \in SomeBounds :
       bodies = <<NewBody(Num(0), Num(0), Num(2), Num(2), Num(1), Rat(1, 2), Num(1),
                          s1, bounds),
                  NewBody(place[1], place[2], Num(2), Num(2), m, Num(1), Rat(1, 2),
                          s2, NoBounds)>>
  /\ bodyLast = [op |-> "init", this |-> 0, calls |-> 0, changed |-> FALSE,
                 emitted |-> <<>>]
  /\ NoTetris /\ NoCells /\ NoBoard

CallUpdate ==
  \E i \in Bodies, dt \in Deltas :
    BodyCall("update", i, BodyUpdate(BodyWorld(bodies), i, dt))

CallApplyForce ==
  \E i \in Bodies, f \in Pushes :
    BodyCall("applyForce", i, ApplyForce(BodyWorld(bodies), i, f[1], f[2]))

CallApplyImpulse ==
  \E i \in Bodies, f \in Pushes :
    BodyCall("applyImpulse", i, ApplyImpulse(BodyWorld(bodies), i, f[1], f[2]))

CallSetPosition ==
  \E i \in Bodies, p \in Places :
    BodyCall("setPosition", i, SetPosition(BodyWorld(bodies), i, p[1], p[2]))

CallSetVelocity ==
  \E i \in Bodies, v \in Velocities :
    BodyCall("setVelocity", i, SetVelocity(BodyWorld(bodies), i, v[1], v[2]))

CallStop == \E i \in Bodies : BodyCall("stop", i, Stop(BodyWorld(bodies), i))

CallCollidesWith ==
  \E i \in Bodies, j \in Bodies :
    i # j /\ BodyCall("collidesWith", i, CollidesWith(BodyWorld(bodies), i, j))

CallResolveCollision ==
  \E i \in Bodies, j \in Bodies :
    /\ i # j
    /\ bodyLast.calls < MaxCalls
    /\ HasRationalSqrt(DistanceSquared(bodies[i], bodies[j]))
    /\ BodyCall("resolveCollision", i, ResolveCollision(BodyWorld(bodies), i, j))

NextBodies ==
  \/ CallUpdate
  \/ CallApplyForce
  \/ CallApplyImpulse
  \/ CallSetPosition
  \/ CallSetVelocity
  \/ CallStop
  \/ CallCollidesWith
  \/ CallResolveCollision

BodySpec == InitBodies /\ [][NextBodies]_vars

(***************************************************************************)
(* C20  A static body's position, velocity and accumulated acceleration    *)
(* are unchanged by update, applyForce and applyImpulse, and its velocity  *)
(* is unchanged by resolveCollision, as the receiver or as the argument.   *)
(***************************************************************************)
C20_StaticBodyIsUntouched ==
  [][\A i \in {1, 2} : bodies[i].isStatic =>
       /\ (bodyLast'.op \in {"update", "applyForce", "applyImpulse"}
           /\ bodyLast'.this = i) => bodies'[i] = bodies[i]
       /\ bodyLast'.op = "resolveCollision" =>
            /\ bodies'[i].velocityX = bodies[i].velocityX
            /\ bodies'[i].velocityY = bodies[i].velocityY]_vars

\* a collision with a moving static body was resolved and changed the other
\* body's velocity
C20_Witness ==
  /\ bodyLast.op = "resolveCollision" /\ bodyLast.changed
  /\ \E i \in {1, 2} :
       /\ bodies[i].isStatic
       /\ bodies[i].velocityX # <<0, 1>>

(***************************************************************************)
(* TwinSpec: two bodies alike, at rest, with friction 1 and no bounds;     *)
(* every order of at most MaxTrail calls of applyForce, applyImpulse and   *)
(* update(), each body's calls recorded in its trail.                      *)
(***************************************************************************)
\* TwinSpec makes at most MaxTrail calls
MaxTrail == 6

\* the default of update's parameter deltaTime
DefaultDeltaTime == Num(1)

\* the record of a call of body i
TwinCall(i, op, arg, bw) ==
  /\ Len(bodyLast.trail[1]) + Len(bodyLast.trail[2]) < MaxTrail
  /\ bodies' = bw.b
  /\ bodyLast' = [trail |-> [bodyLast.trail EXCEPT
                               ![i] = Append(@, [op |-> op, arg |-> arg])]]
  /\ UNCHANGED <<game, timers, last, cell, cellLast, grid, board, boardLast>>

InitTwin ==
  /\ \E m \in Masses :
       bodies = [i \in Bodies |->
                   NewBody(Num(0), Num(0), Num(2), Num(2), m, Num(1), Rat(1, 2),
                           FALSE, NoBounds)]
  /\ bodyLast = [trail |-> <<<<>>, <<>>>>]
  /\ NoTetris /\ NoCells /\ NoBoard

TwinApplyForce ==
  \E i \in Bodies, f \in Pushes :
    TwinCall(i, "applyForce", f, ApplyForce(BodyWorld(bodies), i, f[1], f[2]))

TwinApplyImpulse ==
  \E i \in Bodies, f \in Pushes :
    TwinCall(i, "applyImpulse", f, ApplyImpulse(BodyWorld(bodies), i, f[1], f[2]))

TwinUpdate ==
  \E i \in Bodies :
    TwinCall(i, "update", <<>>, BodyUpdate(BodyWorld(bodies), i, DefaultDeltaTime))

NextTwin ==
  \/ TwinApplyForce
  \/ TwinApplyImpulse
  \/ TwinUpdate

TwinSpec == InitTwin /\ [][NextTwin]_vars

\* the trail t is k calls of op and then one or two calls of update
CallsThenUpdates(t, op, k) ==
  /\ k >= 1
  /\ Len(t) \in {k + 1, k + 2}
  /\ \A n \in 1..Len(t) : t[n].op = (IF n <= k THEN op ELSE "update")

\* the sum of the component c of the arguments of the first k calls of t
RECURSIVE SumOfPushes(_, _, _)
SumOfPushes(t, c, k) ==
  IF k = 0 THEN Num(0) ELSE RAdd(SumOfPushes(t, c, k - 1), t[k].arg[c])

\* the trail t is the k calls of applyImpulse that correspond to the first k
\* calls of the trail s
CorrespondingImpulses(t, s, k) ==
  /\ Len(t) = k
  /\ \A n \in 1..k : t[n].op = "applyImpulse" /\ t[n].arg = s[n].arg

(***************************************************************************)
(* C21  For a non-static body at rest with friction 1 and no bounds, k     *)
(* calls of applyForce and then one update() give the velocity             *)
(* (sum of fx / mass, sum of fy / mass), which is the velocity the         *)
(* corresponding k calls of applyImpulse give its twin without an update;  *)
(* the accumulated acceleration is zero after the update, and one more     *)
(* update() leaves the velocity unchanged.                                 *)
(***************************************************************************)
C21_ForceIsAppliedOnce ==
  \A i \in Bodies, k \in 1..MaxTrail :
    CallsThenUpdates(bodyLast.trail[i], "applyForce", k) =>
      /\ bodies[i].velocityX = RDiv(SumOfPushes(bodyLast.trail[i], 1, k), bodies[i].mass)
      /\ bodies[i].velocityY = RDiv(SumOfPushes(bodyLast.trail[i], 2, k), bodies[i].mass)
      /\ bodies[i].accelerationX = Num(0)
      /\ bodies[i].accelerationY = Num(0)
      /\ \A j \in Bodies :
           CorrespondingImpulses(bodyLast.trail[j], bodyLast.trail[i], k) =>
             /\ bodies[j].velocityX = bodies[i].velocityX
             /\ bodies[j].velocityY = bodies[i].velocityY

\* two different forces and two updates of the first body, the two
\* corresponding impulses of the second
C21_Witness ==
  /\ CallsThenUpdates(bodyLast.trail[1], "applyForce", 2)
  /\ Len(bodyLast.trail[1]) = 4
  /\ bodyLast.trail[1][1].arg # bodyLast.trail[1][2].arg
  /\ CorrespondingImpulses(bodyLast.trail[2], bodyLast.trail[1], 2)
  /\ bodies[1].velocityX # Num(0)

\* the bounds of the body o are set and its box lies within them
WithinBounds(o) ==
  LET bounds == o.bounds
      Given(f) == f \in DOMAIN bounds
      minX == IF Given("minX") THEN bounds.minX ELSE Num(0)
      minY == IF Given("minY") THEN bounds.minY ELSE Num(0)
  IN /\ bounds # NoBounds
     /\ RLessEq(minX, o.x)
     /\ Given("maxX") => RLessEq(RAdd(o.x, o.width), bounds.maxX)
     /\ RLessEq(minY, o.y)
     /\ Given("maxY") => RLessEq(RAdd(o.y, o.height), bounds.maxY)

\* the bounds of the body o are set and its width and height fit inside them
FitsBounds(o) ==
  /\ o.bounds # NoBounds
  /\ WithinBounds([o EXCEPT !.x = IF "minX" \in DOMAIN o.bounds
                                  THEN o.bounds.minX ELSE Num(0),
                            !.y = IF "minY" \in DOMAIN o.bounds
                                  THEN o.bounds.minY ELSE Num(0)])

\* the boundary-hit notifications among the events ev
BoundaryHits(ev) == {ev[n].detail.boundary : n \in {m \in 1..Len(ev) : ev[m].name = "boundary-hit"}}

(***************************************************************************)
(* C22  After every update of a non-static body whose bounds are set and   *)
(* whose width and height fit inside them, the body's box lies within the  *)
(* bounds on both axes: minX <= x, x + width <= maxX, minY <= y and        *)
(* y + height <= maxY, whatever its position and velocity before.          *)
(***************************************************************************)
C22_UpdateKeepsBoxInBounds ==
  [][\A i \in Bodies :
       (/\ bodyLast'.op = "update" /\ bodyLast'.this = i
        /\ ~bodies[i].isStatic
        /\ FitsBounds(bodies[i])) => WithinBounds(bodies'[i])]_vars

\* an update brought back a body that was beyond the right and the bottom
\* bound
C22_Witness ==
  /\ bodyLast.op = "update"
  /\ bodies[bodyLast.this].velocityX # Num(0)
  /\ RAdd(bodies[bodyLast.this].x, bodies[bodyLast.this].width) = Num(4)
  /\ RAdd(bodies[bodyLast.this].y, bodies[bodyLast.this].height) = Num(5)
  /\ "bottom" \in BoundaryHits(bodyLast.emitted)

\* the edges the box of the body o is beyond, as _checkBounds tests them
EdgesBeyond(o) ==
  LET bounds == o.bounds
      Given(f) == f \in DOMAIN bounds
      minX == IF Given("minX") THEN bounds.minX ELSE Num(0)
      minY == IF Given("minY") THEN bounds.minY ELSE Num(0)
      left == RLess(o.x, minX)
      top == RLess(o.y, minY)
  IN IF bounds = NoBounds THEN {}
     ELSE {e \in {"left", "right", "top", "bottom"} :
             \/ e = "left" /\ left
             \/ e = "right" /\ ~left /\ Given("maxX")
                  /\ RGreater(RAdd(o.x, o.width), bounds.maxX)
             \/ e = "top" /\ top
             \/ e = "bottom" /\ ~top /\ Given("maxY")
                  /\ RGreater(RAdd(o.y, o.height), bounds.maxY)}

(***************************************************************************)
(* C23  When one update moves a body past a horizontal bound and a         *)
(* vertical bound at once, a boundary-hit notification is emitted for each *)
(* edge hit: the left or right edge and the top or bottom edge are both    *)
(* reported.                                                               *)
(***************************************************************************)
C23_CornerReportsBothEdges ==
  [][\A i \in Bodies, dt \in Deltas :
       LET beyond == EdgesBeyond(Moved(bodies[i], dt))
       IN (/\ bodyLast'.op = "update" /\ bodyLast'.this = i
           /\ ~bodies[i].isStatic
           /\ bodies' = BodyUpdate(BodyWorld(bodies), i, dt).b
           /\ beyond \cap {"left", "right"} # {}
           /\ beyond \cap {"top", "bottom"} # {})
          => beyond \subseteq BoundaryHits(bodyLast'.emitted)]_vars

(***************************************************************************)
(* BoxSpec: two boxes, the first at (1, 1), the second anywhere in         *)
(* 0..MaxCoord on both axes, each with a width and a height in 1..MaxSize; *)
(* collidesWith is called on either with the other, itself or null.        *)
(***************************************************************************)
\* the second box lies at 0..MaxCoord on both axes
MaxCoord == 3

\* widths and heights are 1..MaxSize
MaxSize == 3

\* the record of a call of collidesWith
BoxCall(i, j, returns, bw) ==
  /\ bodies' = bw.b
  /\ bodyLast' = [op |-> "collidesWith", this |-> i, other |-> j,
                  returns |-> returns, emitted |-> bw.ev]
  /\ UNCHANGED <<game, timers, last, cell, cellLast, grid, board, boardLast>>

InitBox ==
  /\ \E w1 \in 1..MaxSize, h1 \in 1..MaxSize, w2 \in 1..MaxSize, h2 \in 1..MaxSize,
        x2 \in 0..MaxCoord, y2 \in 0..MaxCoord :
       bodies = <<NewBody(Num(1), Num(1), Num(w1), Num(h1), Num(1), Num(1), Num(1),
                          FALSE, NoBounds),
                  NewBody(Num(x2), Num(y2), Num(w2), Num(h2), Num(1), Num(1), Num(1),
                          FALSE, NoBounds)>>
  /\ bodyLast = [op |-> "init", this |-> 0, other |-> 0, returns |-> FALSE,
                 emitted |-> <<>>]
  /\ NoTetris /\ NoCells /\ NoBoard

BoxCollidesWith ==
  \E i \in Bodies, j \in Bodies \cup {NoBody} :
    BoxCall(i, j, CollidesWithReturns(BodyWorld(bodies), i, j),
            CollidesWith(BodyWorld(bodies), i, j))

NextBox == BoxCollidesWith

BoxSpec == InitBox /\ [][NextBox]_vars

(***************************************************************************)
(* C24  As stated: for boxes a = this and b = other of any widths and      *)
(* heights, collidesWith(other) returns true exactly when ax < bx+bw and   *)
(* ax+aw > bx and ay < by+bh and ay+bh > by, and false for null.           *)
(***************************************************************************)
C24_OverlapOriginal ==
  bodyLast.op = "collidesWith" =>
    IF bodyLast.other = NoBody THEN bodyLast.returns = FALSE
    ELSE LET a == bodies[bodyLast.this]
             b == bodies[bodyLast.other]
         IN bodyLast.returns <=>
              /\ RLess(a.x, RAdd(b.x, b.width))
              /\ RGreater(RAdd(a.x, a.width), b.x)
              /\ RLess(a.y, RAdd(b.y, b.height))
              /\ RGreater(RAdd(a.y, b.height), b.y)

(***************************************************************************)
(* C24  Amended: for boxes a = this and b = other of any widths and        *)
(* heights, collidesWith(other) returns true exactly when ax < bx+bw and   *)
(* ax+aw > bx and ay < by+bh and ay+ah > by (this box's own height), and   *)
(* false for null.                                                         *)
(***************************************************************************)
C24_OverlapAmended ==
  bodyLast.op = "collidesWith" =>
    IF bodyLast.other = NoBody THEN bodyLast.returns = FALSE
    ELSE LET a == bodies[bodyLast.this]
             b == bodies[bodyLast.other]
         IN bodyLast.returns <=>
              /\ RLess(a.x, RAdd(b.x, b.width))
              /\ RGreater(RAdd(a.x, a.width), b.x)
              /\ RLess(a.y, RAdd(b.y, b.height))
              /\ RGreater(RAdd(a.y, a.height), b.y)

\* collidesWith returned false for a taller box that begins right below this
\* box, and x ranges that overlap
C24_Witness ==
  /\ bodyLast.op = "collidesWith" /\ bodyLast.other # NoBody
  /\ ~bodyLast.returns
  /\ LET a == bodies[bodyLast.this]
         b == bodies[bodyLast.other]
     IN /\ RLess(a.height, b.height)
        /\ b.y = RAdd(a.y, a.height)
        /\ RLess(a.x, RAdd(b.x, b.width)) /\ RGreater(RAdd(a.x, a.width), b.x)

\* the velocity of body a relative to body b along the line from the centre
\* of a to the centre of b, times the distance of the centres
ClosingSpeed(a, b) ==
  RAdd(RMul(RSub(GetCenter(b).x, GetCenter(a).x), RSub(a.velocityX, b.velocityX)),
       RMul(RSub(GetCenter(b).y, GetCenter(a).y), RSub(a.velocityY, b.velocityY)))

\* the distance of the centres of a and b is decreasing
Approaching(a, b) == RGreater(ClosingSpeed(a, b), Num(0))

\* a and b meet head-on along the x axis
HeadOnAlongX(a, b) ==
  /\ GetCenter(a).y = GetCenter(b).y
  /\ a.velocityY = Num(0) /\ b.velocityY = Num(0)

(***************************************************************************)
(* C25  When two non-static bodies with distinct centres approach each     *)
(* other along the line of their centres, resolveCollision changes their   *)
(* velocities so that afterwards they no longer approach along that line;  *)
(* with equal masses and restitution 1, head-on along an axis, the two     *)
(* velocities along the normal are exchanged.                              *)
(***************************************************************************)
C25_ResolveStopsApproach ==
  [][\A i \in Bodies, j \in Bodies :
       (/\ i # j
        /\ bodyLast'.op = "resolveCollision" /\ bodyLast'.this = i
        /\ ~bodies[i].isStatic /\ ~bodies[j].isStatic
        /\ GetCenter(bodies[i]) # GetCenter(bodies[j])
        /\ Approaching(bodies[i], bodies[j]))
       => /\ ~Approaching(bodies'[i], bodies'[j])
          /\ (/\ bodies[i].mass = bodies[j].mass
              /\ bodies[i].restitution = Num(1) /\ bodies[j].restitution = Num(1)
              /\ HeadOnAlongX(bodies[i], bodies[j]))
             => /\ bodies'[i].velocityX = bodies[j].velocityX
                /\ bodies'[j].velocityX = bodies[i].velocityX]_vars

(***************************************************************************)
(* Part 4: BoardLayer.                                                     *)
(*                                                                         *)
(* _layerMap is a sequence of layers in the insertion order of the Map; a  *)
(* layer's canvas is named by the layer's id, the number of the layer's    *)
(* creation, and `container` is the order of the layer canvases in the     *)
(* board container (all before the grid canvas).  What a canvas shows is   *)
(* "clear" or "drawn".  The board's width, height and grid are left out.   *)
(* The methods use the shadow root, which exists from the first render on: *)
(* BoardSpec calls them after firstUpdated.                                *)
(***************************************************************************)
\* BoardSpec makes at most MaxBoardCalls calls that change the board
MaxBoardCalls == 3

\* null, as a value a method returns
Null == [null |-> TRUE]

\* Math.max(a, b)
RMax(a, b) == IF RLess(a, b) THEN b ELSE a

\* Map: has, get, set, delete, keys
MapHas(m, name) == \E k \in 1..Len(m) : m[k].name = name

MapGet(m, name) == m[CHOOSE k \in 1..Len(m) : m[k].name = name]

MapSet(m, name, layer) ==
  IF MapHas(m, name)
  THEN [k \in 1..Len(m) |-> IF m[k].name = name THEN layer ELSE m[k]]
  ELSE Append(m, layer)

MapDelete(m, name) == SelectSeq(m, LAMBDA l : l.name # name)

MapKeys(m) == [k \in 1..Len(m) |-> m[k].name]

\* the fields of a layer that _createLayer and _updateLayerConfig take from
\* a config: zIndex || 0, visible !== false, opacity ?? 1,
\* blendMode || 'source-over'
ConfigZIndex(config) == IF "zIndex" \in DOMAIN config THEN config.zIndex ELSE 0

ConfigVisible(config) == IF "visible" \in DOMAIN config THEN config.visible ELSE TRUE

ConfigOpacity(config) == IF "opacity" \in DOMAIN config THEN config.opacity ELSE Num(1)

ConfigBlendMode(config) ==
  IF "blendMode" \in DOMAIN config THEN config.blendMode ELSE "source-over"

\* the element after its constructor, with the attributes given
NewBoard(layers, autoClear) ==
  [rendered |-> FALSE, layers |-> layers, autoClear |-> autoClear,
   layerMap |-> <<>>, container |-> <<>>, created |-> 0]

\* the board with the events the running method has dispatched: w = [b, ev]
BoardWorld(b) == [b |-> b, ev |-> <<>>]

\* _dispatchEvent(name, detail)
BoardDispatch(w, name, detail) ==
  [w EXCEPT !.ev = Append(@, [name |-> name, detail |-> detail])]

\* the layer of a name with the field changes f applied: layer.x = ...
WithLayer(w, name, Change(_)) ==
  [w EXCEPT !.b.layerMap = MapSet(@, name, Change(MapGet(@, name)))]

\* container.insertBefore(canvas, this._gridCanvas): the canvas becomes the
\* last of the layer canvases, leaving the place it had
InsertBeforeGrid(container, id) ==
  Append(SelectSeq(container, LAMBDA c : c # id), id)

\* _createLayer
CreateLayer(w, config) ==
  LET layer == [name |-> config.name,
                id |-> w.b.created + 1,
                zIndex |-> ConfigZIndex(config),
                visible |-> ConfigVisible(config),
                opacity |-> ConfigOpacity(config),
                blendMode |-> ConfigBlendMode(config),
                style |-> [zIndex |-> ConfigZIndex(config),
                           opacity |-> ConfigOpacity(config),
                           mixBlendMode |-> ConfigBlendMode(config)],
                hidden |-> ~ConfigVisible(config),
                pixels |-> "clear"]
      set == [w EXCEPT !.b.created = @ + 1,
                       !.b.layerMap = MapSet(@, config.name, layer),
                       !.b.container = InsertBeforeGrid(@, layer.id)]
  IN BoardDispatch(set, "layer-add",
                   [name |-> config.name, layer |-> layer.id,
                    totalLayers |-> Len(set.b.layerMap)])

\* _updateLayerConfig
UpdateLayerConfig(w, config) ==
  LET Change(layer) ==
        [layer EXCEPT !.zIndex = ConfigZIndex(config),
                      !.visible = ConfigVisible(config),
                      !.opacity = ConfigOpacity(config),
                      !.blendMode = ConfigBlendMode(config),
                      !.style = [zIndex |-> ConfigZIndex(config),
                                 opacity |-> ConfigOpacity(config),
                                 mixBlendMode |-> ConfigBlendMode(config)],
                      !.hidden = ~ConfigVisible(config)]
  IN IF ~MapHas(w.b.layerMap, config.name) THEN w
     ELSE WithLayer(w, config.name, Change)

\* _removeLayerByName
RemoveLayerByName(w, name) ==
  IF ~MapHas(w.b.layerMap, name) THEN w
  ELSE LET layer == MapGet(w.b.layerMap, name)
           removed == [w EXCEPT
                         !.b.container = SelectSeq(@, LAMBDA c : c # layer.id),
                         !.b.layerMap = MapDelete(@, name)]
       IN BoardDispatch(removed, "layer-remove",
                        [name |-> name, totalLayers |-> Len(removed.b.layerMap)])

\* the sort that puts the later of two layers of one zIndex first
RECURSIVE SortedLaterFirst(_)
SortedLaterFirst(layers) ==
  IF layers = <<>> THEN <<>>
  ELSE LET n == Len(layers)
           rest == SortedLaterFirst(SubSeq(layers, 1, n - 1))
           before == SelectSeq(rest, LAMBDA l : l.zIndex < layers[n].zIndex)
           after == SelectSeq(rest, LAMBDA l : l.zIndex >= layers[n].zIndex)
       IN before \o <<layers[n]>> \o after

\* Array.from(...).sort((a, b) => a.zIndex - b.zIndex): the sort is stable,
\* a layer goes behind the layers before it of a zIndex not greater
RECURSIVE Sorted(_)
Sorted(layers) ==
  IF layers = <<>> THEN <<>>
  ELSE LET n == Len(layers)
           rest == Sorted(SubSeq(layers, 1, n - 1))
           before == SelectSeq(rest, LAMBDA l : l.zIndex <= layers[n].zIndex)
           after == SelectSeq(rest, LAMBDA l : l.zIndex > layers[n].zIndex)
       IN before \o <<layers[n]>> \o after

\* _sortLayers
RECURSIVE InsertAllBeforeGrid(_, _)
InsertAllBeforeGrid(container, layers) ==
  IF layers = <<>> THEN container
  ELSE InsertAllBeforeGrid(InsertBeforeGrid(container, Head(layers).id), Tail(layers))

SortLayers(w) ==
  [w EXCEPT !.b.container = InsertAllBeforeGrid(@, Sorted(w.b.layerMap))]

\* _syncLayers: the loop over the current names, the loop over the configs
RECURSIVE RemoveStale(_, _, _)
RemoveStale(w, currentNames, newNames) ==
  IF currentNames = <<>> THEN w
  ELSE RemoveStale(IF Head(currentNames) \notin newNames
                   THEN RemoveLayerByName(w, Head(currentNames)) ELSE w,
                   Tail(currentNames), newNames)

RECURSIVE CreateOrUpdate(_, _)
CreateOrUpdate(w, configs) ==
  IF configs = <<>> THEN w
  ELSE CreateOrUpdate(IF ~MapHas(w.b.layerMap, Head(configs).name)
                      THEN CreateLayer(w, Head(configs))
                      ELSE UpdateLayerConfig(w, Head(configs)),
                      Tail(configs))

SyncLayers(w) ==
  LET newNames == {w.b.layers[k].name : k \in 1..Len(w.b.layers)}
  IN SortLayers(CreateOrUpdate(RemoveStale(w, MapKeys(w.b.layerMap), newNames),
                               w.b.layers))

\* addLayer that creates the layer whether or not the name is present
AddLayerNoGuard(w, config) == CreateLayer(w, config)

\* addLayer(config), and the layer it returns
AddLayer(w, config) ==
  IF MapHas(w.b.layerMap, config.name) THEN w ELSE CreateLayer(w, config)

AddLayerReturns(w, config) == MapGet(AddLayer(w, config).b.layerMap, config.name)

\* removeLayer(name), and the value it returns
RemoveLayer(w, name) ==
  IF ~MapHas(w.b.layerMap, name) THEN w ELSE RemoveLayerByName(w, name)

RemoveLayerReturns(w, name) == MapHas(w.b.layerMap, name)

\* getLayer(name)
GetLayer(b, name) == IF MapHas(b.layerMap, name) THEN MapGet(b.layerMap, name) ELSE Null

\* getLayerByIndex(index)
GetLayerByIndex(b, index) ==
  LET sortedLayers == Sorted(b.layerMap)
  IN IF index \in 0..(Len(sortedLayers) - 1) THEN sortedLayers[index + 1] ELSE Null

\* getContext(name): the context of the canvas of the layer
GetContext(b, name) ==
  IF MapHas(b.layerMap, name) THEN [ctx |-> MapGet(b.layerMap, name).id] ELSE Null

\* getLayerNames(), getLayerCount()
GetLayerNames(b) == MapKeys(b.layerMap)

GetLayerCount(b) == Len(b.layerMap)

\* clearLayer(name)
ClearLayer(w, name) ==
  LET Change(layer) == [layer EXCEPT !.pixels = "clear"]
  IN IF MapHas(w.b.layerMap, name) THEN WithLayer(w, name, Change) ELSE w

\* clear()
Clear(w) ==
  [w EXCEPT !.b.layerMap = [k \in 1..Len(@) |-> [@[k] EXCEPT !.pixels = "clear"]]]

\* setLayerVisibility(name, visible)
SetLayerVisibility(w, name, visible) ==
  LET Change(layer) == [layer EXCEPT !.visible = visible, !.hidden = ~visible]
  IN IF ~MapHas(w.b.layerMap, name) THEN w
     ELSE BoardDispatch(WithLayer(w, name, Change), "layer-change",
                        [name |-> name, property |-> "visible", value |-> visible])

\* setLayerOpacity(name, opacity)
SetLayerOpacity(w, name, opacity) ==
  LET clamped == RMax(Num(0), RMin(Num(1), opacity))
      Change(layer) == [layer EXCEPT !.opacity = clamped, !.style.opacity = clamped]
  IN IF ~MapHas(w.b.layerMap, name) THEN w
     ELSE BoardDispatch(WithLayer(w, name, Change), "layer-change",
                        [name |-> name, property |-> "opacity", value |-> clamped])

\* setLayerBlendMode(name, blendMode)
SetLayerBlendMode(w, name, blendMode) ==
  LET Change(layer) ==
        [layer EXCEPT !.blendMode = blendMode, !.style.mixBlendMode = blendMode]
  IN IF ~MapHas(w.b.layerMap, name) THEN w
     ELSE BoardDispatch(WithLayer(w, name, Change), "layer-change",
                        [name |-> name, property |-> "blendMode", value |-> blendMode])

\* setLayerZIndex that dispatches before it looks the layer up
SetLayerZIndexAlwaysDispatches(w, name, zIndex) ==
  LET Change(layer) == [layer EXCEPT !.zIndex = zIndex, !.style.zIndex = zIndex]
      set == IF MapHas(w.b.layerMap, name) THEN SortLayers(WithLayer(w, name, Change))
             ELSE w
  IN BoardDispatch(set, "layer-change",
                   [name |-> name, property |-> "zIndex", value |-> zIndex])

\* setLayerZIndex(name, zIndex)
SetLayerZIndex(w, name, zIndex) ==
  LET Change(layer) == [layer EXCEPT !.zIndex = zIndex, !.style.zIndex = zIndex]
  IN IF ~MapHas(w.b.layerMap, name) THEN w
     ELSE BoardDispatch(SortLayers(WithLayer(w, name, Change)), "layer-change",
                        [name |-> name, property |-> "zIndex", value |-> zIndex])

\* renderToLayer(name, callback), the callback drawing on the context or not
RenderToLayer(w, name, draws) ==
  LET Change(layer) ==
        [layer EXCEPT !.pixels = IF draws THEN "drawn"
                                 ELSE IF w.b.autoClear THEN "clear" ELSE @]
  IN IF ~MapHas(w.b.layerMap, name) THEN w ELSE WithLayer(w, name, Change)

\* render(): the render event
Render(w) ==
  BoardDispatch(w, "render", [layerCount |-> Len(w.b.layerMap),
                              layers |-> GetLayerNames(w.b)])

\* the first update of the element: render(), firstUpdated() and its
\* _initializeLayers, updated() with `layers` among the changed properties
FirstUpdate(w) == SyncLayers(SyncLayers([Render(w) EXCEPT !.b.rendered = TRUE]))

\* the update after `layers` was assigned: render(), updated()
LayersAssigned(w, layers) == SyncLayers(Render([w EXCEPT !.b.layers = layers]))

(***************************************************************************)
(* BoardSpec: one board, its first update and every order of at most       *)
(* MaxBoardCalls calls that change it, with queries in between.            *)
(***************************************************************************)
\* the names, the configs, the configuration lists and the arguments the
\* model passes
LayerNames == {"a", "b", "c"}

Configs ==
  {[name |-> n] : n \in LayerNames}
  \cup {[name |-> n, zIndex |-> 1] : n \in LayerNames}
  \cup {[name |-> "a", zIndex |-> -1, visible |-> FALSE, opacity |-> Num(2),
         blendMode |-> "multiply"]}

LayerLists ==
  {<<>>,
   <<[name |-> "a", zIndex |-> 1], [name |-> "b"], [name |-> "c", zIndex |-> 1]>>,
   <<[name |-> "b", opacity |-> Rat(1, 2)], [name |-> "b", zIndex |-> 1]>>}

Opacities == {Num(-1), Rat(1, 2), Num(2)}

ZIndexes == {0, 2}

Indexes == -1..3

\* the record of a call that may change the board
BoardCall(op, arg, returns, w) ==
  /\ board.rendered
  /\ boardLast.calls < MaxBoardCalls
  /\ board' = w.b
  /\ boardLast' = [op |-> op, arg |-> arg, returns |-> returns, emitted |-> w.ev,
                   calls |-> boardLast.calls + 1]
  /\ UNCHANGED <<game, timers, last, cell, cellLast, grid, bodies, bodyLast>>

\* the record of a query
BoardQuery(op, arg, returns) ==
  /\ board.rendered
  /\ board' = board
  /\ boardLast' = [op |-> op, arg |-> arg, returns |-> returns, emitted |-> <<>>,
                   calls |-> boardLast.calls]
  /\ UNCHANGED <<game, timers, last, cell, cellLast, grid, bodies, bodyLast>>

InitBoardLayer ==
  /\ \E layers \in LayerLists, autoClear \in BOOLEAN :
       board = NewBoard(layers, autoClear)
  /\ boardLast = [op |-> "init", arg |-> <<>>, returns |-> Null, emitted |-> <<>>,
                  calls |-> 0]
  /\ NoTetris /\ NoCells /\ NoBodies

FirstUpdated ==
  /\ ~board.rendered
  /\ board' = FirstUpdate(BoardWorld(board)).b
  /\ boardLast' = [op |-> "firstUpdated", arg |-> <<>>, returns |-> Null,
                   emitted |-> FirstUpdate(BoardWorld(board)).ev, calls |-> 0]
  /\ UNCHANGED <<game, timers, last, cell, cellLast, grid, bodies, bodyLast>>

SetLayers ==
  \E layers \in LayerLists :
    BoardCall("layers", layers, Null, LayersAssigned(BoardWorld(board), layers))

CallAddLayer ==
  \E config \in Configs :
    BoardCall("addLayer", config, AddLayerReturns(BoardWorld(board), config),
              AddLayer(BoardWorld(board), config))

CallRemoveLayer ==
  \E name \in LayerNames :
    BoardCall("removeLayer", name, RemoveLayerReturns(BoardWorld(board), name),
              RemoveLayer(BoardWorld(board), name))

CallClearLayer ==
  \E name \in LayerNames :
    BoardCall("clearLayer", name, Null, ClearLayer(BoardWorld(board), name))

CallClear == BoardCall("clear", <<>>, Null, Clear(BoardWorld(board)))

CallSetLayerVisibility ==
  \E name \in LayerNames, visible \in BOOLEAN :
    BoardCall("setLayerVisibility", name, Null,
              SetLayerVisibility(BoardWorld(board), name, visible))

CallSetLayerOpacity ==
  \E name \in LayerNames, opacity \in Opacities :
    BoardCall("setLayerOpacity", name, Null,
              SetLayerOpacity(BoardWorld(board), name, opacity))

CallSetLayerBlendMode ==
  \E name \in LayerNames :
    BoardCall("setLayerBlendMode", name, Null,
              SetLayerBlendMode(BoardWorld(board), name, "screen"))

CallSetLayerZIndex ==
  \E name \in LayerNames, zIndex \in ZIndexes :
    BoardCall("setLayerZIndex", name, Null,
              SetLayerZIndex(BoardWorld(board), name, zIndex))

CallRenderToLayer ==
  \E name \in LayerNames, draws \in BOOLEAN :
    BoardCall("renderToLayer", name, Null,
              RenderToLayer(BoardWorld(board), name, draws))

CallGetLayer ==
  \E name \in LayerNames : BoardQuery("getLayer", name, GetLayer(board, name))

CallGetContext ==
  \E name \in LayerNames : BoardQuery("getContext", name, GetContext(board, name))

CallGetLayerByIndex ==
  \E index \in Indexes :
    BoardQuery("getLayerByIndex", index, GetLayerByIndex(board, index))

NextBoard ==
  \/ FirstUpdated
  \/ SetLayers
  \/ CallAddLayer
  \/ CallRemoveLayer
  \/ CallClearLayer
  \/ CallClear
  \/ CallSetLayerVisibility
  \/ CallSetLayerOpacity
  \/ CallSetLayerBlendMode
  \/ CallSetLayerZIndex
  \/ CallRenderToLayer
  \/ CallGetLayer
  \/ CallGetContext
  \/ CallGetLayerByIndex

BoardSpec == InitBoardLayer /\ [][NextBoard]_vars

\* the events of a name among the events ev
EventsNamed(ev, name) == SelectSeq(ev, LAMBDA e : e.name = name)

\* no two layers of the map m have one name
NamesUnique(m) == \A k \in 1..Len(m), l \in 1..Len(m) : m[k].name = m[l].name => k = l

(***************************************************************************)
(* C26  addLayer with a name already present returns the existing layer    *)
(* object, leaves the layer count and that layer's zIndex, visible,        *)
(* opacity and blendMode unchanged and emits no layer-add; the layer names *)
(* are unique keys after every call.                                       *)
(***************************************************************************)
C26_AddLayerIsIdempotent ==
  [][/\ (boardLast'.op = "addLayer" /\ MapHas(board.layerMap, boardLast'.arg.name)) =>
          LET existing == MapGet(board.layerMap, boardLast'.arg.name)
              now == MapGet(board'.layerMap, boardLast'.arg.name)
          IN /\ boardLast'.returns = existing
             /\ Len(board'.layerMap) = Len(board.layerMap)
             /\ now.id = existing.id
             /\ now.zIndex = existing.zIndex
             /\ now.visible = existing.visible
             /\ now.opacity = existing.opacity
             /\ now.blendMode = existing.blendMode
             /\ EventsNamed(boardLast'.emitted, "layer-add") = <<>>
     /\ NamesUnique(board'.layerMap)]_vars

\* addLayer was called with the name of a layer and a config that differs
\* from the layer
C26_Witness ==
  /\ boardLast.op = "addLayer"
  /\ boardLast.emitted = <<>>
  /\ boardLast.returns.zIndex # ConfigZIndex(boardLast.arg)
  /\ boardLast.returns.opacity # ConfigOpacity(boardLast.arg)
  /\ Len(board.layerMap) = 3

(***************************************************************************)
(* C27  In every reachable state every layer's opacity lies in [0, 1],     *)
(* whichever operation set it: addLayer with a config opacity, the         *)
(* synchronisation from the layers configuration list, or setLayerOpacity. *)
(***************************************************************************)
C27_OpacityInUnitInterval ==
  \A k \in 1..Len(board.layerMap) :
    /\ RLessEq(Num(0), board.layerMap[k].opacity)
    /\ RLessEq(board.layerMap[k].opacity, Num(1))

(***************************************************************************)
(* C28  For a name that is not in the layer map, getLayer and getContext   *)
(* return null, removeLayer returns false, and removeLayer,                *)
(* setLayerVisibility, setLayerOpacity, setLayerBlendMode, setLayerZIndex, *)
(* clearLayer and renderToLayer leave every layer unchanged and emit       *)
(* nothing; removeLayer of a name in the map returns true, and getLayer of *)
(* that name returns null afterwards.                                      *)
(***************************************************************************)
C28_UnknownNameIsNoOp ==
  [][/\ (/\ boardLast'.op \in {"getLayer", "getContext", "removeLayer",
                               "setLayerVisibility", "setLayerOpacity",
                               "setLayerBlendMode", "setLayerZIndex", "clearLayer",
                               "renderToLayer"}
         /\ ~MapHas(board.layerMap, boardLast'.arg)) =>
          /\ board'.layerMap = board.layerMap
          /\ board'.container = board.container
          /\ boardLast'.emitted = <<>>
          /\ boardLast'.op \in {"getLayer", "getContext"} => boardLast'.returns = Null
          /\ boardLast'.op = "removeLayer" => boardLast'.returns = FALSE
     /\ (boardLast'.op = "removeLayer" /\ MapHas(board.layerMap, boardLast'.arg)) =>
          /\ boardLast'.returns = TRUE
          /\ GetLayer(board', boardLast'.arg) = Null]_vars

\* setLayerZIndex was called with a name that no layer of a board with
\* layers has
C28_Witness ==
  /\ boardLast.op = "setLayerZIndex"
  /\ ~MapHas(board.layerMap, boardLast.arg)
  /\ Len(board.layerMap) = 2

(***************************************************************************)
(* C29  After any sequence of addLayer, removeLayer and setLayerZIndex,    *)
(* getLayerByIndex(0 .. n-1) enumerates all n layers in non-decreasing     *)
(* zIndex, layers of equal zIndex in the order they were inserted (the     *)
(* order of their creation, which the ids count); an index outside         *)
(* 0 .. n-1 returns null.                                                  *)
(***************************************************************************)
C29_IndexFollowsZOrder ==
  board.rendered =>
    LET n == Len(board.layerMap)
        At(index) == GetLayerByIndex(board, index)
    IN /\ {At(index) : index \in 0..(n - 1)} = {board.layerMap[k] : k \in 1..n}
       /\ \A k \in 0..(n - 1), l \in 0..(n - 1) :
            k < l => \/ At(k).zIndex < At(l).zIndex
                     \/ At(k).zIndex = At(l).zIndex /\ At(k).id < At(l).id
       /\ At(-1) = Null /\ At(n) = Null /\ At(n + 1) = Null
       /\ boardLast.op = "getLayerByIndex" => boardLast.returns = At(boardLast.arg)

\* getLayerByIndex was called on a board of three layers, two of one
\* zIndex, whose z-order is not the order of their insertion
C29_Witness ==
  /\ boardLast.op = "getLayerByIndex" /\ boardLast.arg = 1
  /\ Len(board.layerMap) = 3
  /\ Sorted(board.layerMap) # board.layerMap
  /\ \E k \in 1..3, l \in 1..3 :
       k # l /\ board.layerMap[k].zIndex = board.layerMap[l].zIndex

(***************************************************************************)
(* Rotation, spawning, the templates and the ghost piece.                  *)
(***************************************************************************)
\* m turned a quarter clockwise: the top row of the result is the left
\* column of m read from the bottom up
Clockwise(m) ==
  [i \in 1..Len(m[1]) |-> [j \in 1..Len(m) |-> m[Len(m) + 1 - j][i]]]

\* the x offsets a rotation tries, in the order the claim gives
RotationOffsets == <<0, -1, 1, -2, 2>>

\* C31: a rotation commits the clockwise rotated shape at the first of the
\* offsets 0, -1, +1, -2, +2 at which it is valid, moves currentX by that
\* offset and leaves currentY alone; if it is valid at none of them, shape,
\* currentX and currentY stay as they were.
C31_RotationTakesFirstFittingOffset ==
  [][last'.op = "rotate" =>
       LET turned == Clockwise(game.currentPiece.shape)
           fitting == {i \in DOMAIN RotationOffsets :
                         IsValidPosition(game, turned,
                                         game.currentX + RotationOffsets[i],
                                         game.currentY)}
       IN /\ game'.currentY = game.currentY
          /\ game'.currentPiece.type = game.currentPiece.type
          /\ IF fitting = {}
             THEN /\ game'.currentPiece.shape = game.currentPiece.shape
                  /\ game'.currentX = game.currentX
             ELSE \E i \in fitting :
                    /\ \A j \in fitting : i <= j
                    /\ game'.currentPiece.shape = turned
                    /\ game'.currentX = game.currentX + RotationOffsets[i]]_vars

\* an upright I stands in column 1 right after a rotation at the top of the
\* well, beside a stack in column 2 that reaches row 2: the rotation found
\* offset 0 blocked and both -1 and +1 free, and took -1
C31_Witness ==
  /\ last.op = "rotate"
  /\ game.currentPiece.type = "I"
  /\ game.currentPiece.shape[1] = <<0, 0, 1, 0>>
  /\ game.currentX = -1
  /\ game.currentY = 0
  /\ game.board[3][3] # null
  /\ game.board[3][2] = null
  /\ game.board[3][4] = null

\* a piece as _getRandomPiece makes it: one of the seven kinds, in the
\* orientation and colour of its template
NewlyGenerated ==
  {[type |-> TETROMINO_KEYS[k],
    shape |-> TETROMINOES[TETROMINO_KEYS[k]].shape,
    color |-> TETROMINOES[TETROMINO_KEYS[k]].color] :
     k \in DOMAIN TETROMINO_KEYS}

\* the handler of this step was startGame (called, or reached by a start key)
Started(tr) == tr.op = "startGame" /\ tr.ran

\* the handler of this step ran reset()
WasReset(tr) == tr.op = "reset" /\ tr.ran

\* g holds its current piece where _spawnPiece puts it: at the top, and at
\* x = floor((width - shape width) / 2)
AtSpawnPlace(g) ==
  LET d == g.width - Len(g.currentPiece.shape[1])
  IN /\ g.currentY = 0
     /\ 2 * g.currentX <= d
     /\ d < 2 * g.currentX + 2

\* C32 as stated: every spawn, the one of startGame included, makes the piece
\* that was shown as next the current piece.
C32_SpawnOriginal ==
  [][/\ (Locked(last') \/ Started(last')) /\ game.nextPiece # NoPiece =>
          /\ game'.currentPiece = game.nextPiece
          /\ game'.nextPiece \in NewlyGenerated
          /\ AtSpawnPlace(game')
     /\ ~(Locked(last') \/ Started(last') \/ WasReset(last')) =>
          game'.nextPiece = game.nextPiece]_vars

\* C32 (amended): the spawn after a lock makes the piece that was shown as
\* next the current piece (same kind, same shape matrix), installs a newly
\* generated next piece and puts the current piece at currentY = 0 and
\* currentX = floor((width - shape width) / 2); startGame discards the piece
\* shown as next, and its spawn makes a newly generated piece current at the
\* same place; every other step but reset leaves the next piece alone.
C32_SpawnAmended ==
  [][/\ Locked(last') =>
          /\ game'.currentPiece = game.nextPiece
          /\ game'.nextPiece \in NewlyGenerated
          /\ AtSpawnPlace(game')
     /\ Started(last') =>
          /\ game'.currentPiece \in NewlyGenerated
          /\ game'.nextPiece \in NewlyGenerated
          /\ AtSpawnPlace(game')
     /\ ~(Locked(last') \/ Started(last') \/ WasReset(last')) =>
          game'.nextPiece = game.nextPiece]_vars

\* a lock has just promoted a T that was shown as next, and an O is next now
C32_Witness ==
  /\ Locked(last)
  /\ ~game.gameOver
  /\ game.currentPiece.type = "T"
  /\ game.nextPiece.type = "O"
  /\ game.currentY = 0

(***************************************************************************)
(* ShapeSpec: the piece objects of GameTetris by reference.  JavaScript    *)
(* arrays and objects are shared, not copied, by assignment; the store     *)
(* below keeps every object at an address, so that a write through one     *)
(* reference is seen through every other.  game is the store s =           *)
(* [heap, templates, currentPiece, nextPiece, started]; the board is left  *)
(* out, and whether the rotated shape fits at some offset is an input of   *)
(* the rotation, so every run of the element is a run of ShapeSpec.  Moves *)
(* and drops write no piece, shape or template and are stuttering steps.   *)
(***************************************************************************)
\* the addresses of the store
MaxObjects == 60

\* an address nothing is stored at
Free == [tag |-> "free"]

\* the null reference of _currentPiece and _nextPiece
NoRef == 0

\* the addresses the next n new objects and arrays get: the n least free ones
FreeAddresses(h, n) ==
  LET free == {a \in DOMAIN h : h[a].tag = "free"}
  IN [i \in 1..n |->
        CHOOSE a \in free : Cardinality({b \in free : b < a}) = i - 1]

\* a new object or array
New(h, obj) ==
  LET ref == FreeAddresses(h, 1)[1]
  IN [heap |-> [h EXCEPT ![ref] = obj], ref |-> ref]

\* a new array of new row arrays holding the numbers of m
NewMatrix(h, m) ==
  LET refs == FreeAddresses(h, Len(m) + 1)
      rows == SubSeq(refs, 1, Len(m))
      ref == refs[Len(m) + 1]
  IN [heap |-> [a \in DOMAIN h |->
                  IF \E i \in DOMAIN rows : rows[i] = a
                  THEN [tag |-> "array",
                        elems |-> m[CHOOSE i \in DOMAIN rows : rows[i] = a]]
                  ELSE IF a = ref THEN [tag |-> "array", elems |-> rows]
                  ELSE h[a]],
      ref |-> ref]

\* the numbers of the matrix at ref
ReadMatrix(h, ref) == [i \in 1..Len(h[ref].elems) |-> h[h[ref].elems[i]].elems]

\* const TETROMINOES = {...}: an object with a shape matrix for each key
RECURSIVE NewTemplates(_, _)
NewTemplates(h, k) ==
  IF k > Len(TETROMINO_KEYS) THEN [heap |-> h, refs |-> <<>>]
  ELSE LET t == TETROMINOES[TETROMINO_KEYS[k]]
           shape == NewMatrix(h, t.shape)
           template == New(shape.heap, [tag |-> "object", type |-> "undefined",
                                        shape |-> shape.ref, color |-> t.color])
           rest == NewTemplates(template.heap, k + 1)
       IN [heap |-> rest.heap, refs |-> <<template.ref>> \o rest.refs]

\* _getRandomPiece that hands out the template object itself, with its type set
RefGetRandomPieceShared(s, k) ==
  [heap |-> [s.heap EXCEPT ![s.templates[k]].type = TETROMINO_KEYS[k]],
   ref |-> s.templates[k]]

\* _getRandomPiece: a new object, its shape a new array of copies of the rows
RefGetRandomPiece(s, k) ==
  LET template == s.heap[s.templates[k]]
      shape == NewMatrix(s.heap, ReadMatrix(s.heap, template.shape))
  IN New(shape.heap, [tag |-> "object", type |-> TETROMINO_KEYS[k],
                      shape |-> shape.ref, color |-> template.color])

\* _rotateMatrix: a new matrix, the argument only read
RefRotateMatrix(h, ref) == NewMatrix(h, RotateMatrix(ReadMatrix(h, ref)))

\* _rotate: this._currentPiece.shape = rotated when the rotated shape fits
RefRotate(s, fits) ==
  LET rotated == RefRotateMatrix(s.heap, s.heap[s.currentPiece].shape)
  IN IF fits
     THEN [s EXCEPT !.heap = [rotated.heap EXCEPT ![s.currentPiece].shape = rotated.ref]]
     ELSE s

\* _spawnPiece: the assignments of _currentPiece and _nextPiece
RefSpawnPiece(s, k) ==
  LET promoted == [s EXCEPT !.currentPiece = s.nextPiece]
      piece == RefGetRandomPiece(promoted, k)
  IN [promoted EXCEPT !.heap = piece.heap, !.nextPiece = piece.ref]

\* startGame: the assignments of _nextPiece and _currentPiece
RefStartGame(s, k1, k2) ==
  LET piece == RefGetRandomPiece(s, k1)
  IN RefSpawnPiece([s EXCEPT !.heap = piece.heap, !.nextPiece = piece.ref,
                             !.started = TRUE], k2)

\* reset: the assignments of _currentPiece and _nextPiece
RefReset(s) == [s EXCEPT !.currentPiece = NoRef, !.nextPiece = NoRef, !.started = FALSE]

\* the addresses a walk from the piece object o passes: the object, its
\* shape array, the row arrays
PieceWalk(h, o) == <<o, h[o].shape>> \o h[h[o].shape].elems

\* the walks from the objects of a list, one after the other
RECURSIVE Walk(_, _)
Walk(h, objects) ==
  IF objects = <<>> THEN <<>>
  ELSE PieceWalk(h, Head(objects)) \o Walk(h, Tail(objects))

\* the store without the objects no reference leads to, the others renamed
\* in the order of a walk from the templates, the current and the next
\* piece: a program cannot observe at which address an object is
Collected(s) ==
  LET Ref(r) == IF r = NoRef THEN <<>> ELSE <<r>>
      walk == Walk(s.heap, s.templates \o Ref(s.currentPiece) \o Ref(s.nextPiece))
      firsts == {i \in DOMAIN walk : \A j \in 1..(i - 1) : walk[j] # walk[i]}
      order == [n \in 1..Cardinality(firsts) |->
                  walk[CHOOSE i \in firsts : Cardinality({j \in firsts : j < i}) = n - 1]]
      Renamed(a) == CHOOSE n \in DOMAIN order : order[n] = a
      shapes == {s.heap[order[n]].shape :
                   n \in {m \in DOMAIN order : s.heap[order[m]].tag = "object"}}
      Renumbered(old, a) ==
        IF old.tag = "object" THEN [old EXCEPT !.shape = Renamed(@)]
        ELSE IF a \in shapes
        THEN [old EXCEPT !.elems = [i \in DOMAIN old.elems |-> Renamed(old.elems[i])]]
        ELSE old
  IN [s EXCEPT !.heap = [n \in DOMAIN s.heap |->
                           IF n \in DOMAIN order
                           THEN Renumbered(s.heap[order[n]], order[n])
                           ELSE Free],
               !.templates = [k \in DOMAIN s.templates |-> Renamed(s.templates[k])],
               !.currentPiece = IF @ = NoRef THEN NoRef ELSE Renamed(@),
               !.nextPiece = IF @ = NoRef THEN NoRef ELSE Renamed(@)]

\* the store a handler named op leaves
ShapeBecomes(op, s) ==
  /\ game' = Collected(s)
  /\ last' = [op |-> op]
  /\ UNCHANGED <<timers, cell, cellLast, grid, bodies, bodyLast, board, boardLast>>

InitShape ==
  /\ LET made == NewTemplates([a \in 1..MaxObjects |-> Free], 1)
     IN game = Collected([heap |-> made.heap, templates |-> made.refs,
                          currentPiece |-> NoRef, nextPiece |-> NoRef,
                          started |-> FALSE])
  /\ timers = {}
  /\ last = [op |-> "init"]
  /\ NoCells /\ NoBodies /\ NoBoard

\* startGame()
ShapeStartGame ==
  \E k1 \in DOMAIN TETROMINO_KEYS, k2 \in DOMAIN TETROMINO_KEYS :
    ShapeBecomes("startGame", RefStartGame(game, k1, k2))

\* a tick or a hard drop locks the piece and spawns
ShapeSpawn ==
  /\ game.started
  /\ \E k \in DOMAIN TETROMINO_KEYS : ShapeBecomes("spawn", RefSpawnPiece(game, k))

\* a rotate key
ShapeRotate ==
  /\ game.started
  /\ \E fits \in BOOLEAN : ShapeBecomes("rotate", RefRotate(game, fits))

\* reset()
ShapeReset == ShapeBecomes("reset", RefReset(game))

NextShape == ShapeStartGame \/ ShapeSpawn \/ ShapeRotate \/ ShapeReset

ShapeSpec == InitShape /\ [][NextShape]_vars

\* the shape matrix the piece object at ref holds in store s
ShapeOf(s, ref) == ReadMatrix(s.heap, s.heap[ref].shape)

\* the shape the source text gives the kind of the piece object at ref
TemplateShapeOf(s, ref) == TETROMINOES[s.heap[ref].type].shape

\* C33: the seven templates keep the shapes the source text gives them; the
\* next piece, and the current piece right after its spawn, have the
\* template orientation of their kind; a rotation never changes the shape of
\* the next piece, of whatever kind it is.
C33_TemplatesAndNextPieceUntouched ==
  /\ [](\A k \in DOMAIN TETROMINO_KEYS :
          ShapeOf(game, game.templates[k]) = TETROMINOES[TETROMINO_KEYS[k]].shape)
  /\ [](game.nextPiece # NoRef =>
          ShapeOf(game, game.nextPiece) = TemplateShapeOf(game, game.nextPiece))
  /\ [](last.op \in {"startGame", "spawn"} =>
          ShapeOf(game, game.currentPiece) = TemplateShapeOf(game, game.currentPiece))
  /\ [][last'.op = "rotate" =>
          ShapeOf(game', game'.nextPiece) = ShapeOf(game, game.nextPiece)]_vars

\* a rotation has just turned a T while the next piece is a T too
C33_Witness ==
  /\ last.op = "rotate"
  /\ game.heap[game.currentPiece].type = "T"
  /\ game.heap[game.nextPiece].type = "T"
  /\ ShapeOf(game, game.currentPiece) # TETROMINOES["T"].shape

(***************************************************************************)
(* GhostSpec: the element with the ghost projection of _render as a step   *)
(* of its own.  _render runs at the end of every handler and computes      *)
(* ghostY = _getGhostY() whenever there is a current piece (showGhost is   *)
(* on by default); the step records the row returned.                      *)
(***************************************************************************)
\* _getGhostY as a call: it writes no field, and returns the row
GhostProjection(w) == [w |-> w, returns |-> GetGhostY(w.g)]

\* _render reaches `const ghostY = this._getGhostY()`
RenderGhost ==
  /\ game.currentPiece # NoPiece
  /\ LET call == GhostProjection(World("getGhostY"))
     IN /\ game' = call.w.g
        /\ timers' = call.w.timers
        /\ last' = [op |-> "getGhostY", returns |-> call.returns]
  /\ UNCHANGED <<cell, cellLast, grid, bodies, bodyLast, board, boardLast>>

NextGhost == Next \/ RenderGhost

GhostSpec == Init /\ [][NextGhost]_vars

\* C34: the ghost projection changes no engine state, and in a game that is
\* started and not over it returns the row currentY + n for the greatest n
\* such that every position from currentY to currentY + n is valid; a hard
\* drop from the same state moves the piece by exactly that n rows and locks
\* it there.
C34_GhostIsHardDropRow ==
  [][/\ last'.op = "getGhostY" =>
          /\ game' = game
          /\ timers' = timers
          /\ (game.gameStarted /\ ~game.gameOver) =>
                last'.returns = game.currentY + FreeFall(game)
     /\ last'.op = "hardDrop" =>
          /\ last'.drop = FreeFall(game)
          /\ last'.detected = 0 =>
                game'.board = LockedBoard([game EXCEPT !.currentY = @ + FreeFall(game)])]_vars

\* the projection just returned a row below the piece, above a stack: the
\* ghost rests on locked cells, not on the floor
C34_Witness ==
  /\ last.op = "getGhostY"
  /\ game.gameStarted /\ ~game.gameOver
  /\ last.returns > game.currentY
  /\ IsValidPosition([game EXCEPT !.board = InitBoard(game.width, game.height)],
                     game.currentPiece.shape, game.currentX, last.returns + 1)

(***************************************************************************)
(* ConvgameObject: what resolveCollision, _checkBounds and collidesWith    *)
(* leave alone.                                                            *)
(***************************************************************************)
\* the distance of the centres of a and b is increasing
MovingApart(a, b) == RLess(ClosingSpeed(a, b), Num(0))

\* C35: resolveCollision never changes a position, and it changes neither
\* velocity when both bodies are static, when their centres coincide, or
\* when they are moving apart along the line of their centres.
C35_ResolveLeavesSeparatingPair ==
  [][\A i \in Bodies, j \in Bodies :
       (i # j /\ bodyLast'.op = "resolveCollision" /\ bodyLast'.this = i)
       => /\ \A k \in Bodies : /\ bodies'[k].x = bodies[k].x
                               /\ bodies'[k].y = bodies[k].y
          /\ (\/ bodies[i].isStatic /\ bodies[j].isStatic
              \/ GetCenter(bodies[i]) = GetCenter(bodies[j])
              \/ MovingApart(bodies[i], bodies[j]))
             => \A k \in Bodies : /\ bodies'[k].velocityX = bodies[k].velocityX
                                  /\ bodies'[k].velocityY = bodies[k].velocityY]_vars

\* |a|
RAbs(a) == IF RLess(a, Num(0)) THEN RNeg(a) ELSE a

\* C36: whenever update clamps a body at a bound, the velocity on that axis
\* afterwards points back into the bounds or is zero (velocityX >= 0 after a
\* left hit, <= 0 after a right hit, velocityY >= 0 after a top hit, <= 0
\* after a bottom hit), its magnitude restitution times the magnitude before
\* the clamp, wherever the body started.
C36_ClampTurnsVelocityInward ==
  [][\A i \in Bodies, dt \in Deltas :
       LET moved == Moved(bodies[i], dt)
           beyond == EdgesBeyond(moved)
           now == bodies'[i]
           ScaledX == RAbs(now.velocityX) = RMul(moved.restitution, RAbs(moved.velocityX))
           ScaledY == RAbs(now.velocityY) = RMul(moved.restitution, RAbs(moved.velocityY))
       IN (/\ bodyLast'.op = "update" /\ bodyLast'.this = i
           /\ ~bodies[i].isStatic
           /\ bodies' = BodyUpdate(BodyWorld(bodies), i, dt).b)
          => /\ "left" \in beyond => RLessEq(Num(0), now.velocityX) /\ ScaledX
             /\ "right" \in beyond => RLessEq(now.velocityX, Num(0)) /\ ScaledX
             /\ "top" \in beyond => RLessEq(Num(0), now.velocityY) /\ ScaledY
             /\ "bottom" \in beyond => RLessEq(now.velocityY, Num(0)) /\ ScaledY]_vars

(***************************************************************************)
(* GameTetris: the place of the current piece.                             *)
(***************************************************************************)
\* the board cells (row, column), 0-based, under the occupied cells of the
\* current piece of g were it at (x, y)
CellsUnder(g, x, y) ==
  {<<y + c[1], x + c[2]>> : c \in OccupiedCells(g.currentPiece.shape)}

\* were the current piece of g at (x, y), each of its occupied cells would
\* lie inside the board on an empty cell
OnEmptyCells(g, x, y) ==
  \A p \in CellsUnder(g, x, y) :
    /\ p[1] \in 0..(g.height - 1)
    /\ p[2] \in 0..(g.width - 1)
    /\ g.board[p[1] + 1][p[2] + 1] = null

\* the locked cells of a board
LockedCells(b) ==
  {p \in (1..Len(b)) \X (1..Len(b[1])) : b[p[1]][p[2]] # null}

\* C37: while the game is started and not over the current piece lies with
\* all its occupied cells inside the board on empty cells; a lock puts the
\* piece on exactly 4 cells that were empty and overwrites no locked cell;
\* a left or right move that would make the position invalid leaves
\* currentX as it was.
C37_PieceLiesOnEmptyCells ==
  /\ []((game.gameStarted /\ ~game.gameOver) =>
          OnEmptyCells(game, game.currentX, game.currentY))
  /\ [][/\ Locked(last') =>
             LET y == IF last'.op = "hardDrop"
                      THEN game.currentY + FreeFall(game) ELSE game.currentY
                 cells == CellsUnder(game, game.currentX, y)
             IN /\ Cardinality(cells) = 4
                /\ OnEmptyCells(game, game.currentX, y)
                /\ last'.detected = 0 =>
                     \A r \in 1..game.height, c \in 1..game.width :
                       game'.board[r][c] =
                         IF <<r - 1, c - 1>> \in cells
                         THEN game.currentPiece.color
                         ELSE game.board[r][c]
        /\ last'.op = "moveLeft" =>
             /\ game'.currentX =
                  IF OnEmptyCells(game, game.currentX - 1, game.currentY)
                  THEN game.currentX - 1 ELSE game.currentX
             /\ game'.currentY = game.currentY
        /\ last'.op = "moveRight" =>
             /\ game'.currentX =
                  IF OnEmptyCells(game, game.currentX + 1, game.currentY)
                  THEN game.currentX + 1 ELSE game.currentX
             /\ game'.currentY = game.currentY]_vars

\* a piece has just been locked on a board that held locked cells already,
\* and no row is full
C37_Witness ==
  /\ Locked(last) /\ last.detected = 0
  /\ Cardinality(LockedCells(game.board)) > 4

(***************************************************************************)
(* FairSpec: a game under its interval timer.  The player starts the game  *)
(* and moves, rotates and soft-drops the piece; the timer set by           *)
(* setInterval fires again and again as long as it is pending, which is    *)
(* the fairness of a tick.  last is [tr, ticks]: the record of the handler *)
(* of the step, and the number of ticks the current piece has received.    *)
(***************************************************************************)
\* the keys of FairSpec: start, left, right, soft drop, rotate
FairKeys == {"Enter", "ArrowLeft", "ArrowRight", "ArrowDown", "ArrowUp"}

\* the ticks the current piece has received after a handler that left tr
TicksAfter(tr, ticks) ==
  IF Locked(tr) \/ Started(tr) THEN 0
  ELSE IF tr.op = "tick" /\ tr.ran THEN ticks + 1
  ELSE ticks

\* the world a handler leaves, and the ticks counted
Counting(w) ==
  /\ game' = w.g /\ timers' = w.timers
  /\ last' = [tr |-> w.tr, ticks |-> TicksAfter(w.tr, last.ticks)]
  /\ UNCHANGED <<cell, cellLast, grid, bodies, bodyLast, board, boardLast>>

InitFair ==
  /\ \E w \in 2..MaxWidth : \E h \in 2..MaxHeight :
       w * h <= MaxCells /\ game = NewGame(w, h)
  /\ timers = {}
  /\ last = [tr |-> NoTrace("init"), ticks |-> 0]
  /\ NoCells /\ NoBodies /\ NoBoard

\* a pending interval timer fires
FairTick ==
  /\ timers # {}
  /\ game.lines < MaxLines
  /\ \E k \in (IF TickDraws(game) THEN Kinds ELSE AnyOne(Kinds)) :
       Counting(Tick(World("tick"), k))

\* a keydown event reaches the document
FairKey ==
  /\ game.lines < MaxLines
  /\ \E key \in FairKeys :
       \E k1 \in (IF KeyStarts(game, key) THEN Kinds ELSE AnyOne(Kinds)) :
         \E k2 \in (IF KeyStarts(game, key) THEN Kinds ELSE AnyOne(Kinds)) :
           Counting(HandleKeyDown(World("key"), key, k1, k2))

NextFair == FairTick \/ FairKey

FairSpec == InitFair /\ [][NextFair]_vars /\ WF_vars(FairTick)

\* C38: in a playing game currentY never decreases while the same piece is
\* current; every tick either moves the piece down by exactly one row and
\* leaves the board alone, or locks it, clears lines and spawns; and a piece
\* receives fewer than `height` ticks that do not lock it, whatever keys are
\* pressed between the ticks: the tick number `height` at the latest locks
\* it.
C38_TicksLockEveryPiece ==
  /\ [][(Flags(game) = Playing /\ ~Locked(last'.tr) /\ ~Started(last'.tr)) =>
          game'.currentY >= game.currentY]_vars
  /\ [][(Flags(game) = Playing /\ last'.tr.op = "tick") =>
          \/ /\ ~Locked(last'.tr)
             /\ game'.currentY = game.currentY + 1
             /\ game'.currentX = game.currentX
             /\ game'.currentPiece = game.currentPiece
             /\ game'.board = game.board
          \/ /\ Locked(last'.tr)
             /\ game'.currentPiece = game.nextPiece
             /\ game'.currentY = 0]_vars
  /\ [](Flags(game) = Playing => last.ticks < game.height)

\* the current piece has received two ticks and rests on the stack or the
\* floor after the player moved or turned it: the next tick locks it
C38_Witness ==
  /\ Flags(game) = Playing
  /\ last.ticks = 2
  /\ last.tr.op \in {"moveLeft", "moveRight", "rotate"}
  /\ ~CanMoveDown(game)

(***************************************************************************)
(* LivingWccell: the pending next state between calculate and apply.       *)
(***************************************************************************)
\* C39: calculateNextState(n) leaves pending the value the state and the
\* rules of that moment give; setAlive, toggle and setRules leave a pending
\* value as it is; and applyNextState sets alive to the pending value,
\* whatever alive and the rules have become in between.
C39_PendingValueIsCommitted ==
  [][/\ cellLast'.op = "calculateNextState" =>
          cell'.nextState =
            <<IF cell.alive THEN cellLast'.arg \in cell.rules.survival
              ELSE cellLast'.arg \in cell.rules.birth>>
     /\ (cellLast'.op \in {"setAlive", "toggle", "setRules"}
           /\ cell.nextState # <<>>) =>
          cell'.nextState = cell.nextState
     /\ (cellLast'.op = "applyNextState" /\ cell.nextState # <<>>) =>
          cell'.alive = cell.nextState[1]]_vars

\* applyNextState, called right after a setAlive, changed alive back: the
\* pending value overwrote the state set directly
C39_Witness ==
  /\ cellLast.op = "applyNextState" /\ cellLast.before = "setAlive"
  /\ Len(StateChanges(cellLast.emitted)) = 1

(***************************************************************************)
(* ConvgameObject: the collision test as a relation of two boxes.          *)
(***************************************************************************)
\* the length of the stretch two intervals [p, p + m] and [q, q + n] share,
\* negative when they are apart
SharedExtent(p, m, q, n) == RSub(RMin(RAdd(p, m), RAdd(q, n)), RMax(p, q))

====
